---- MODULE Spec2Model ----
(***************************************************************************)
(* Job orchestration engine of the Rama Judicial scraping API.             *)
(*                                                                         *)
(* The module models the queue scheduler of server.js (version 3.2) and of *)
(* its successor with a per-job timeout (version 4.1): the job store, the  *)
(* FIFO queue, the activeJobs counter, the shared browser promise, the     *)
(* periodic sweep and the three HTTP handlers.  Node runs every handler,   *)
(* timer callback and promise continuation to its next await without       *)
(* interleaving, so each action below is one such run-to-completion piece. *)
(* Two earlier versions are modelled beside them: version 2.0, which       *)
(* answers /buscar synchronously and forgets a failed browser launch, and  *)
(* version 2.3, which runs jobs behind a semaphore and keeps a result      *)
(* cache.                                                                  *)
(***************************************************************************)
EXTENDS Integers, Sequences, FiniteSets, TLC

(***************************************************************************)
(* Bounds of the model.                                                    *)
(***************************************************************************)
MaxJobs == 4          \* number of jobs ever created
MaxSweeps == 2        \* number of sweep periods the clock may cross
MaxTtls == 1          \* version 2.3: number of cache TTLs the clock may cross
MaxLate == 1          \* version 2.3: cleanup periods visited after each of them
MaxTimed == 3         \* version 2.3: jobs created in a run in which time passes

(***************************************************************************)
(* Program constants.                                                      *)
(***************************************************************************)
MAX_CONCURRENT_JOBS == 2
JOB_TTL_MS == 600000
JOB_TIMEOUT_MS == 90000
RADICADO_LEN == 23
MAX_CONCURRENT == 2            \* version 2.3
JOB_TTL_MS_V23 == 300000       \* version 2.3: its JOB_TTL_MS
CACHE_TTL_MS == 600000         \* version 2.3
CLEANUP_INTERVAL_MS == 30000   \* version 2.3: period of cleanupMaps

Variants == {"v3.2", "v4.1"}   \* server.js, and the version with JOB_TIMEOUT_MS
PoolVariants == Variants \cup {"v2.0"}       \* with the synchronous version
AllVariants == PoolVariants \cup {"v2.3"}    \* with the semaphore and cache version

Ids == 1..MaxJobs

VARIABLES
    variant,          \* which version of the server is running
    jobs,             \* Map jobId -> record
    queue,            \* array of {jobId, numeroRadicacion}
    activeJobs,       \* counter of admitted, unfinished processQueue runs
    nextId,           \* number of job ids generated so far
    race,             \* per job: the processQueue run that admitted it
    call,             \* per job: its consultaRama call
    timer,            \* per job: the setTimeout of its timeoutPromise
    deadline,         \* per job: instant at which that timer is due
    browserPromise,   \* the browser singleton
    now,              \* Date.now()
    nextSweepAt,      \* instant at which the setInterval sweep is due
    resp,             \* the HTTP response sent by the step just taken, if any
    launched,         \* outcome of every chromium.launch() call, in order
    joined,           \* per consultaRama call: the launch its getBrowser() returned
    cache,            \* version 2.3: Map radicado -> {createdAt, data}
    sem,              \* version 2.3: per job, its position in withSemaphore
    soloDigitos,      \* version 2.3: per job, the key its callback closed over
    pages             \* the calls whose page is open on the browser

vars == <<variant, jobs, queue, activeJobs, nextId, race, call, timer,
          deadline, browserPromise, now, nextSweepAt, resp, launched, joined,
          cache, sem, soloDigitos, pages>>

(***************************************************************************)
(* Request keys: strings are sequences of characters.                      *)
(***************************************************************************)
DigitChars == {"0", "1", "2", "3", "4", "5", "6", "7", "8", "9"}

IsDigit(c) == c \in DigitChars

\* radicado.replace(/\D/g, "")
SoloDigitos(s) == SelectSeq(s, IsDigit)

Rep(c, n) == [i \in 1..n |-> c]

\* query values a caller may send: absent, too short, exact, formatted
Radicados ==
    { <<>>,
      Rep("5", 2) \o <<"-">> \o Rep("5", RADICADO_LEN - 3),
      Rep("5", RADICADO_LEN),
      Rep("5", 5) \o <<"-">> \o Rep("5", RADICADO_LEN - 5) }

Results == {"ENCONTRADO"}       \* the object consultaRama returns
ScrapeErrors == {"page.goto: Timeout 40000ms exceeded"}
NewPageError == "browser.newPage: Target closed"
LaunchError == "browserType.launch: Failed to launch chromium"
TimeoutError == "Job timeout (90s)"

\* version 2.3: a second request key, and what its consultaRama returns or throws
CacheRadicados == Radicados \cup {Rep("7", RADICADO_LEN)}
\* the court's site knows the first process and not the second
CacheResult(key) ==
    IF key = Rep("5", RADICADO_LEN) THEN "ENCONTRADO" ELSE "NO_ENCONTRADO"
WaitError == "Timeout esperando resultado o mensaje de no-resultados"
CacheErrors == {WaitError}
\* `result: null` of a job of version 2.3, in the shape of a returned object
NoData == [estado |-> "null", numero_radicacion |-> << >>]

(***************************************************************************)
(* Job store.                                                              *)
(***************************************************************************)
MapSet(m, k, v) == [x \in DOMAIN m \cup {k} |-> IF x = k THEN v ELSE m[x]]

MapDelete(m, ks) == [x \in DOMAIN m \ ks |-> m[x]]

\* { ...job, ...updates }
Merge(job, updates) ==
    [f \in DOMAIN job \cup DOMAIN updates |->
        IF f \in DOMAIN updates THEN updates[f] ELSE job[f]]

\* variant of createJob: the record starts in "processing" (as before the queue existed)
createJobProcessing(m, jobId, numeroRadicacion) ==
    MapSet(m, jobId, [status |-> "processing",
                      numero_radicacion |-> numeroRadicacion,
                      result |-> "null",
                      error |-> "null",
                      createdAt |-> now])

createJob(m, jobId, numeroRadicacion) ==
    MapSet(m, jobId, [status |-> "queued",
                      numero_radicacion |-> numeroRadicacion,
                      result |-> "null",
                      error |-> "null",
                      createdAt |-> now])

\* variant of updateJob: jobs.set without the test of the record
updateJobUpsert(m, jobId, updates) ==
    MapSet(m, jobId, IF jobId \in DOMAIN m THEN Merge(m[jobId], updates)
                     ELSE updates)

\* variant of updateJob: an update also restarts the age of the record
updateJobTouch(m, jobId, updates) ==
    IF jobId \in DOMAIN m
    THEN MapSet(m, jobId, Merge(Merge(m[jobId], updates), [createdAt |-> now]))
    ELSE m

updateJob(m, jobId, updates) ==
    IF jobId \in DOMAIN m THEN MapSet(m, jobId, Merge(m[jobId], updates)) ELSE m

(***************************************************************************)
(* Scheduler.  The operators work on a snapshot of the scheduler state so  *)
(* that a handler which calls processQueue is one atomic action.           *)
(***************************************************************************)
Sched == [jobs |-> jobs, queue |-> queue, activeJobs |-> activeJobs,
          race |-> race, call |-> call, timer |-> timer,
          deadline |-> deadline, browserPromise |-> browserPromise,
          launched |-> launched, joined |-> joined]

\* getBrowser(): launch once, memoise the promise
getBrowser(bp) == IF bp = "null" THEN "pending" ELSE bp

\* new Promise(... setTimeout(reject, JOB_TIMEOUT_MS)): only in v4.1
armTimer(s, jobId) ==
    IF variant = "v4.1"
    THEN [s EXCEPT !.timer[jobId] = "armed",
                   !.deadline[jobId] = now + JOB_TIMEOUT_MS]
    ELSE s

\* variant of launch: every getBrowser() call launches a browser
launchAlways(bp, ls) == Append(ls, "pending")

\* chromium.launch() is called exactly when getBrowser() finds no promise
launch(bp, ls) == IF bp = "null" THEN Append(ls, "pending") ELSE ls

\* consultaRama(numeroRadicacion, jobId) up to `await getBrowser()`: the
\* call awaits the promise of the latest launch
startConsulta(s, jobId) ==
    [s EXCEPT !.call[jobId] = "awaitBrowser",
              !.browserPromise = getBrowser(s.browserPromise),
              !.launched = launch(s.browserPromise, s.launched),
              !.joined[jobId] = Len(launch(s.browserPromise, s.launched))]

\* variant of processQueue: queue[0] is read and left in the queue
processQueuePeek(s) ==
    IF s.activeJobs >= MAX_CONCURRENT_JOBS \/ Len(s.queue) = 0
    THEN s
    ELSE LET jobId == Head(s.queue).jobId
             s1 == [s EXCEPT !.activeJobs = s.activeJobs + 1,
                             !.jobs = updateJob(s.jobs, jobId,
                                                [status |-> "processing"]),
                             !.race[jobId] = "pending"]
         IN startConsulta(armTimer(s1, jobId), jobId)

\* variant of processQueue: the ceiling test is `>` instead of `>=`
processQueueOverAdmit(s) ==
    IF s.activeJobs > MAX_CONCURRENT_JOBS \/ Len(s.queue) = 0
    THEN s
    ELSE LET jobId == Head(s.queue).jobId
             s1 == [s EXCEPT !.queue = Tail(s.queue),
                             !.activeJobs = s.activeJobs + 1,
                             !.jobs = updateJob(s.jobs, jobId,
                                                [status |-> "processing"]),
                             !.race[jobId] = "pending"]
         IN startConsulta(armTimer(s1, jobId), jobId)

\* variant of processQueue: queue.pop() instead of queue.shift()
processQueueLifo(s) ==
    IF s.activeJobs >= MAX_CONCURRENT_JOBS \/ Len(s.queue) = 0
    THEN s
    ELSE LET n == Len(s.queue)
             jobId == s.queue[n].jobId
             s1 == [s EXCEPT !.queue = SubSeq(s.queue, 1, n - 1),
                             !.activeJobs = s.activeJobs + 1,
                             !.jobs = updateJob(s.jobs, jobId,
                                                [status |-> "processing"]),
                             !.race[jobId] = "pending"]
         IN startConsulta(armTimer(s1, jobId), jobId)

\* processQueue() up to its await
processQueue(s) ==
    IF s.activeJobs >= MAX_CONCURRENT_JOBS \/ Len(s.queue) = 0
    THEN s
    ELSE LET jobId == Head(s.queue).jobId
             s1 == [s EXCEPT !.queue = Tail(s.queue),
                             !.activeJobs = s.activeJobs + 1,
                             !.jobs = updateJob(s.jobs, jobId,
                                                [status |-> "processing"]),
                             !.race[jobId] = "pending"]
         IN startConsulta(armTimer(s1, jobId), jobId)

\* variant of finishJob: the outcome is handled even when the race is settled
finishJobLate(s, jobId, updates) ==
    processQueue([s EXCEPT !.jobs = updateJob(s.jobs, jobId, updates),
                           !.race[jobId] = "settled",
                           !.timer[jobId] = IF @ = "armed" THEN "lost" ELSE @,
                           !.deadline[jobId] = 0,
                           !.activeJobs = s.activeJobs - 1])

\* variant of finishJob: `finally` does not call processQueue()
finishJobNoRedrive(s, jobId, updates) ==
    IF s.race[jobId] # "pending"
    THEN s
    ELSE [s EXCEPT !.jobs = updateJob(s.jobs, jobId, updates),
                   !.race[jobId] = "settled",
                   !.timer[jobId] = IF @ = "armed" THEN "lost" ELSE @,
                   !.deadline[jobId] = 0,
                   !.activeJobs = s.activeJobs - 1]

\* variant of finishJob: the slot is released in the `try` path only
finishJobLeakOnFailure(s, jobId, updates) ==
    IF s.race[jobId] # "pending"
    THEN s
    ELSE IF updates.status = "failed"
    THEN [s EXCEPT !.jobs = updateJob(s.jobs, jobId, updates),
                   !.race[jobId] = "settled",
                   !.timer[jobId] = IF @ = "armed" THEN "lost" ELSE @,
                   !.deadline[jobId] = 0]
    ELSE processQueue([s EXCEPT !.jobs = updateJob(s.jobs, jobId, updates),
                                !.race[jobId] = "settled",
                                !.timer[jobId] = IF @ = "armed" THEN "lost" ELSE @,
                                !.deadline[jobId] = 0,
                                !.activeJobs = s.activeJobs - 1])

\* processQueue() from the settlement of its await to the end of `finally`.
\* Promise.race settles once: a later outcome of the same job finds the race
\* settled and reaches no handler.  A timer that lost the race rejects a
\* promise nobody awaits, so it is retired with the race.
finishJob(s, jobId, updates) ==
    IF s.race[jobId] # "pending"
    THEN s
    ELSE processQueue([s EXCEPT !.jobs = updateJob(s.jobs, jobId, updates),
                                !.race[jobId] = "settled",
                                !.timer[jobId] = IF @ = "armed" THEN "lost" ELSE @,
                                !.deadline[jobId] = 0,
                                !.activeJobs = s.activeJobs - 1])

Completed(result) == [status |-> "completed", result |-> result]

\* variant of Failed: the update carries no error field
FailedNoMessage(message) == [status |-> "failed"]

Failed(message) == [status |-> "failed", error |-> message]

Install(s) ==
    /\ jobs' = s.jobs
    /\ queue' = s.queue
    /\ activeJobs' = s.activeJobs
    /\ race' = s.race
    /\ call' = s.call
    /\ timer' = s.timer
    /\ deadline' = s.deadline
    /\ browserPromise' = s.browserPromise
    /\ launched' = s.launched
    /\ joined' = s.joined

(***************************************************************************)
(* Initial state: a freshly started server.                                *)
(***************************************************************************)
NoResp == [kind |-> "none"]

\* variant of WakePending: a woken caller resumes like any other callback
WakePendingIgnored == FALSE

\* a resolver taken off the queue has been called and its caller has not
\* resumed yet
WakePending == \E j \in Ids : sem[j] = "woken"

Started ==
    /\ jobs = << >>
    /\ queue = << >>
    /\ activeJobs = 0
    /\ nextId = 0
    /\ race = [j \in Ids |-> "none"]
    /\ call = [j \in Ids |-> "none"]
    /\ timer = [j \in Ids |-> "none"]
    /\ deadline = [j \in Ids |-> 0]
    /\ browserPromise = "null"
    /\ now = 0
    /\ nextSweepAt = JOB_TTL_MS
    /\ resp = NoResp
    /\ launched = << >>
    /\ joined = [j \in Ids |-> 0]
    /\ cache = << >>
    /\ sem = [j \in Ids |-> "none"]
    /\ soloDigitos = [j \in Ids |-> << >>]
    /\ pages = {}

Init == variant \in Variants /\ Started

(***************************************************************************)
(* GET /buscar                                                             *)
(***************************************************************************)
\* The instants at which the model lets a request arrive: the start of the
\* server and the instants at which the sweep is due.  The clock also stops
\* where a timeout of version 4.1 is due; no request arrives there.
Arrival(t) == t % JOB_TTL_MS = 0

\* the entry pushed on the queue: v3.2 keeps the raw query value
QueueEntry(jobId, radicado) ==
    [jobId |-> jobId,
     numeroRadicacion |-> IF variant = "v3.2" THEN radicado
                          ELSE SoloDigitos(radicado)]

\* variant of BuscarRejected: the length is tested after createJob
BuscarRejectedAfterCreate(radicado) ==
    /\ \/ Len(radicado) = 0
       \/ Len(SoloDigitos(radicado)) # RADICADO_LEN
    /\ nextId < MaxJobs
    /\ nextId' = nextId + 1
    /\ jobs' = createJob(jobs, nextId + 1, SoloDigitos(radicado))
    /\ resp' = [kind |-> "buscar", code |-> 400,
                recibido |-> Len(SoloDigitos(radicado))]
    /\ UNCHANGED <<variant, pages, cache, sem, soloDigitos, queue, activeJobs, race,
                   call, timer, deadline, browserPromise, now, nextSweepAt,
                   launched, joined>>

BuscarRejected(radicado) ==
    /\ \/ Len(radicado) = 0
       \/ Len(SoloDigitos(radicado)) # RADICADO_LEN
    /\ resp' = [kind |-> "buscar", code |-> 400,
                recibido |-> Len(SoloDigitos(radicado))]
    /\ UNCHANGED <<variant, pages, cache, sem, soloDigitos, jobs, queue, activeJobs, nextId, race, call,
                   timer, deadline, browserPromise, now, nextSweepAt>>
    /\ UNCHANGED <<launched, joined>>

\* variant of BuscarAccepted: the handler does not call processQueue()
BuscarAcceptedNoTrigger(radicado) ==
    /\ variant \in Variants
    /\ Arrival(now)
    /\ Len(radicado) # 0
    /\ Len(SoloDigitos(radicado)) = RADICADO_LEN
    /\ nextId < MaxJobs
    /\ LET jobId == nextId + 1
           s0 == Sched
           s1 == [s0 EXCEPT !.jobs = createJob(s0.jobs, jobId,
                                               SoloDigitos(radicado)),
                            !.queue = Append(s0.queue,
                                             QueueEntry(jobId, radicado))]
       IN /\ Install(s1)
          /\ nextId' = jobId
          /\ resp' = [kind |-> "buscar", code |-> 200, jobId |-> jobId,
                      numero_radicacion |-> SoloDigitos(radicado),
                      status |-> "queued",
                      queue_position |-> Len(s1.queue)]
    /\ UNCHANGED <<variant, pages, cache, sem, soloDigitos, now, nextSweepAt>>

\* variant of BuscarAccepted: a submit is taken only while a slot is free
BuscarAcceptedWhenFree(radicado) ==
    /\ variant \in Variants
    /\ Arrival(now)
    /\ Len(radicado) # 0
    /\ Len(SoloDigitos(radicado)) = RADICADO_LEN
    /\ nextId < MaxJobs
    /\ activeJobs < MAX_CONCURRENT_JOBS
    /\ LET jobId == nextId + 1
           s0 == Sched
           s1 == [s0 EXCEPT !.jobs = createJob(s0.jobs, jobId,
                                               SoloDigitos(radicado)),
                            !.queue = Append(s0.queue,
                                             QueueEntry(jobId, radicado))]
           s2 == processQueue(s1)
       IN /\ Install(s2)
          /\ nextId' = jobId
          /\ resp' = [kind |-> "buscar", code |-> 200, jobId |-> jobId,
                      numero_radicacion |-> SoloDigitos(radicado),
                      status |-> "queued",
                      queue_position |-> Len(s2.queue)]
    /\ UNCHANGED <<variant, pages, cache, sem, soloDigitos, now, nextSweepAt>>

BuscarAccepted(radicado) ==
    /\ variant \in Variants
    /\ Arrival(now)
    /\ Len(radicado) # 0
    /\ Len(SoloDigitos(radicado)) = RADICADO_LEN
    /\ nextId < MaxJobs
    /\ LET jobId == nextId + 1
           s0 == Sched
           s1 == [s0 EXCEPT !.jobs = createJob(s0.jobs, jobId,
                                               SoloDigitos(radicado)),
                            !.queue = Append(s0.queue,
                                             QueueEntry(jobId, radicado))]
           s2 == processQueue(s1)
       IN /\ Install(s2)
          /\ nextId' = jobId
          /\ resp' = [kind |-> "buscar", code |-> 200, jobId |-> jobId,
                      numero_radicacion |-> SoloDigitos(radicado),
                      status |-> "queued",
                      queue_position |-> Len(s2.queue)]
    /\ UNCHANGED <<variant, pages, cache, sem, soloDigitos, now, nextSweepAt>>

(***************************************************************************)
(* GET /resultado/:jobId and GET /health                                   *)
(***************************************************************************)
\* queue.findIndex(q => q.jobId === jobId) + 1
QueuePosition(q, jobId) ==
    IF \E i \in 1..Len(q) : q[i].jobId = jobId
    THEN CHOOSE i \in 1..Len(q) :
             /\ q[i].jobId = jobId
             /\ \A k \in 1..(i - 1) : q[k].jobId # jobId
    ELSE 0

\* variant of PollPayload: a terminal answer also reports the queue length
PollPayloadLeaky(jobId) ==
    IF jobId \notin DOMAIN jobs
    THEN [code |-> 404, status |-> "not_found", queue_position |-> 0,
          result |-> "null", error |-> "Job no encontrado o expirado"]
    ELSE LET job == jobs[jobId] IN
         CASE job.status = "queued" ->
                [code |-> 200, status |-> "queued",
                 queue_position |-> QueuePosition(queue, jobId),
                 result |-> "null", error |-> "null"]
           [] job.status = "processing" ->
                [code |-> 200, status |-> "processing", queue_position |-> 0,
                 result |-> "null", error |-> "null"]
           [] job.status = "completed" ->
                [code |-> 200, status |-> "completed",
                 queue_position |-> Len(queue),
                 result |-> job.result, error |-> "null"]
           [] job.status = "failed" ->
                [code |-> 500, status |-> "failed",
                 queue_position |-> Len(queue),
                 result |-> "null", error |-> job.error]

\* variant of PollPayload: only the jobs that have ended are found
PollPayloadEndedOnly(jobId) ==
    IF jobId \notin DOMAIN jobs \/ jobs[jobId].status \in {"queued", "processing"}
    THEN [code |-> 404, status |-> "not_found", queue_position |-> 0,
          result |-> "null", error |-> "Job no encontrado o expirado"]
    ELSE LET job == jobs[jobId] IN
         CASE job.status = "completed" ->
                [code |-> 200, status |-> "completed", queue_position |-> 0,
                 result |-> job.result, error |-> "null"]
           [] job.status = "failed" ->
                [code |-> 500, status |-> "failed", queue_position |-> 0,
                 result |-> "null", error |-> job.error]

PollPayload(jobId) ==
    IF jobId \notin DOMAIN jobs
    THEN [code |-> 404, status |-> "not_found", queue_position |-> 0,
          result |-> "null", error |-> "Job no encontrado o expirado"]
    ELSE LET job == jobs[jobId] IN
         CASE job.status = "queued" ->
                [code |-> 200, status |-> "queued",
                 queue_position |-> QueuePosition(queue, jobId),
                 result |-> "null", error |-> "null"]
           [] job.status = "processing" ->
                [code |-> 200, status |-> "processing", queue_position |-> 0,
                 result |-> "null", error |-> "null"]
           [] job.status = "completed" ->
                [code |-> 200, status |-> "completed", queue_position |-> 0,
                 result |-> job.result, error |-> "null"]
           [] job.status = "failed" ->
                [code |-> 500, status |-> "failed", queue_position |-> 0,
                 result |-> "null", error |-> job.error]

\* variant of Resultado: a record that was read in a terminal status is
\* deleted from the store
ResultadoConsumes(jobId) ==
    /\ resp' = [kind |-> "resultado", jobId |-> jobId,
                payload |-> PollPayload(jobId)]
    /\ jobs' = IF jobId \in DOMAIN jobs
                  /\ jobs[jobId].status \in {"completed", "failed"}
               THEN MapDelete(jobs, {jobId}) ELSE jobs
    /\ UNCHANGED <<variant, pages, cache, sem, soloDigitos, queue, activeJobs,
                   nextId, race, call, timer, deadline, browserPromise, now,
                   nextSweepAt, launched, joined>>

Resultado(jobId) ==
    /\ resp' = [kind |-> "resultado", jobId |-> jobId,
                payload |-> PollPayload(jobId)]
    /\ UNCHANGED <<variant, pages, cache, sem, soloDigitos, jobs, queue, activeJobs, nextId, race, call,
                   timer, deadline, browserPromise, now, nextSweepAt>>
    /\ UNCHANGED <<launched, joined>>

Health ==
    /\ resp' = [kind |-> "health", active_jobs |-> activeJobs,
                queued_jobs |-> Len(queue),
                total_jobs |-> Cardinality(DOMAIN jobs)]
    /\ UNCHANGED <<variant, pages, cache, sem, soloDigitos, jobs, queue, activeJobs, nextId, race, call,
                   timer, deadline, browserPromise, now, nextSweepAt>>
    /\ UNCHANGED <<launched, joined>>

(***************************************************************************)
(* The periodic sweep.                                                     *)
(***************************************************************************)
\* variant of Expired: a record whose age equals the TTL is dropped too
ExpiredAtTtl(m, t) == {id \in DOMAIN m : t - m[id].createdAt >= JOB_TTL_MS}

Expired(m, t) == {id \in DOMAIN m : t - m[id].createdAt > JOB_TTL_MS}

\* variant of Sweep: the queue entry of an evicted record is dropped with it
SweepDropsEntries ==
    /\ variant \in Variants
    /\ now >= nextSweepAt
    /\ jobs' = MapDelete(jobs, Expired(jobs, now))
    /\ queue' = SelectSeq(queue, LAMBDA e : e.jobId \notin Expired(jobs, now))
    /\ nextSweepAt' = nextSweepAt + JOB_TTL_MS
    /\ UNCHANGED <<variant, pages, cache, sem, soloDigitos, activeJobs, nextId,
                   race, call, timer, deadline, browserPromise, now>>
    /\ resp' = NoResp
    /\ UNCHANGED <<launched, joined>>

\* variant of Sweep: evicting a record also gives back the slot of its job
SweepReleasesSlots ==
    /\ variant \in Variants
    /\ now >= nextSweepAt
    /\ jobs' = MapDelete(jobs, Expired(jobs, now))
    /\ nextSweepAt' = nextSweepAt + JOB_TTL_MS
    /\ UNCHANGED <<variant, pages, cache, sem, soloDigitos, queue, nextId, race, call, timer,
                   deadline, browserPromise, now>>
    /\ resp' = NoResp
    /\ UNCHANGED <<launched, joined>>
    /\ activeJobs' = activeJobs
                       - Cardinality(Expired(jobs, now) \cap
                                     {j \in Ids : race[j] = "pending"})

Sweep ==
    /\ variant \in Variants
    /\ now >= nextSweepAt
    /\ jobs' = MapDelete(jobs, Expired(jobs, now))
    /\ nextSweepAt' = nextSweepAt + JOB_TTL_MS
    /\ UNCHANGED <<variant, pages, cache, sem, soloDigitos, queue, activeJobs, nextId, race, call, timer,
                   deadline, browserPromise, now>>
    /\ resp' = NoResp
    /\ UNCHANGED <<launched, joined>>

(***************************************************************************)
(* The shared browser: chromium.launch() settles.  Version 2.0 chains a    *)
(* catch that sets browserPromise back to null before the rejection        *)
(* reaches the callers that await it; the other versions keep the rejected *)
(* promise.                                                                *)
(***************************************************************************)
LaunchResolves ==
    /\ ~WakePending
    /\ browserPromise = "pending"
    /\ browserPromise' = "fulfilled"
    /\ launched' = [launched EXCEPT ![Len(launched)] = "fulfilled"]
    /\ UNCHANGED <<variant, pages, cache, sem, soloDigitos, jobs, queue, activeJobs, nextId, race,
                   call, timer, deadline, now, nextSweepAt, joined>>
    /\ resp' = NoResp

\* variant of LaunchRejects: a failed launch is retried at once
LaunchRejectsRelaunch ==
    /\ ~WakePending
    /\ browserPromise = "pending"
    /\ browserPromise' = "pending"
    /\ launched' = Append([launched EXCEPT ![Len(launched)] = "rejected"],
                          "pending")
    /\ UNCHANGED <<variant, pages, cache, sem, soloDigitos, jobs, queue, activeJobs, nextId, race,
                   call, timer, deadline, now, nextSweepAt, joined>>
    /\ resp' = NoResp

LaunchRejects ==
    /\ ~WakePending
    /\ browserPromise = "pending"
    /\ browserPromise' = IF variant = "v2.0" THEN "null" ELSE "rejected"
    /\ launched' = [launched EXCEPT ![Len(launched)] = "rejected"]
    /\ UNCHANGED <<variant, pages, cache, sem, soloDigitos, jobs, queue, activeJobs, nextId, race,
                   call, timer, deadline, now, nextSweepAt, joined>>
    /\ resp' = NoResp

(***************************************************************************)
(* consultaRama: the continuation after `await getBrowser()`, and the end  *)
(* of the call.  The page is closed in its `finally`.                      *)
(***************************************************************************)
\* the promise that getBrowser() returned to the call
Handle(jobId) ==
    IF joined[jobId] = 0 THEN "null" ELSE launched[joined[jobId]]

\* what the end of consultaRama sends to the HTTP caller: in version 2.0
\* the /buscar handler awaits the call and answers; the later versions
\* answered when the job was created
Answer(code, body) ==
    IF variant = "v2.0"
    THEN [kind |-> "buscar", code |-> code, body |-> body]
    ELSE NoResp

\* `finally { await page.close() }` of consultaRama
closePage(ps, jobId) == ps \ {jobId}

\* the awaited launch failed: consultaRama rejects
ConsultaLaunchFailed(jobId) ==
    /\ call[jobId] = "awaitBrowser"
    /\ Handle(jobId) = "rejected"
    /\ Install(finishJob([Sched EXCEPT !.call[jobId] = "settled"], jobId,
                         Failed(LaunchError)))
    /\ UNCHANGED <<variant, pages, cache, sem, soloDigitos, nextId, now, nextSweepAt>>
    /\ resp' = Answer(500, LaunchError)

\* browser.newPage() succeeds: the page is open
ConsultaNewPage(jobId) ==
    /\ ~WakePending
    /\ call[jobId] = "awaitBrowser"
    /\ Handle(jobId) = "fulfilled"
    /\ call' = [call EXCEPT ![jobId] = "page"]
    /\ UNCHANGED <<variant, cache, sem, soloDigitos, jobs, queue, activeJobs, nextId, race, timer,
                   deadline, browserPromise, now, nextSweepAt>>
    /\ resp' = NoResp
    /\ UNCHANGED <<launched, joined>>
    /\ pages' = pages \cup {jobId}

\* variant of ConsultaNewPageFails: the rejection escapes processQueue
ConsultaNewPageFailsUncaught(jobId) ==
    /\ call[jobId] = "awaitBrowser"
    /\ Handle(jobId) \in {"fulfilled", "closed"}
    /\ call' = [call EXCEPT ![jobId] = "settled"]
    /\ UNCHANGED <<variant, pages, cache, sem, soloDigitos, jobs, queue, activeJobs, nextId, race,
                   timer, deadline, browserPromise, now, nextSweepAt,
                   launched, joined>>
    /\ resp' = NoResp

\* browser.newPage() fails: consultaRama rejects before its try block
ConsultaNewPageFails(jobId) ==
    /\ call[jobId] = "awaitBrowser"
    /\ Handle(jobId) \in {"fulfilled", "closed"}
    /\ Install(finishJob([Sched EXCEPT !.call[jobId] = "settled"], jobId,
                         Failed(NewPageError)))
    /\ UNCHANGED <<variant, pages, cache, sem, soloDigitos, nextId, now, nextSweepAt>>
    /\ resp' = Answer(500, NewPageError)

\* consultaRama returns; on a closed browser every page operation throws
ConsultaReturns(jobId) ==
    /\ call[jobId] = "page"
    /\ Handle(jobId) # "closed"
    /\ \E result \in Results :
           /\ Install(finishJob([Sched EXCEPT !.call[jobId] = "settled"],
                                jobId, Completed(result)))
           /\ resp' = Answer(200, result)
    /\ UNCHANGED <<variant, cache, sem, soloDigitos, nextId, now, nextSweepAt>>
    /\ pages' = closePage(pages, jobId)

\* variant of ConsultaThrows: the page is closed in the try block only
ConsultaThrowsPageLeft(jobId) ==
    /\ call[jobId] = "page"
    /\ \E message \in ScrapeErrors :
           /\ Install(finishJob([Sched EXCEPT !.call[jobId] = "settled"],
                                jobId, Failed(message)))
           /\ resp' = Answer(500, message)
    /\ UNCHANGED <<variant, pages, cache, sem, soloDigitos, nextId, now,
                   nextSweepAt>>

ConsultaThrows(jobId) ==
    /\ call[jobId] = "page"
    /\ \E message \in ScrapeErrors :
           /\ Install(finishJob([Sched EXCEPT !.call[jobId] = "settled"],
                                jobId, Failed(message)))
           /\ resp' = Answer(500, message)
    /\ UNCHANGED <<variant, cache, sem, soloDigitos, nextId, now, nextSweepAt>>
    /\ pages' = closePage(pages, jobId)

(***************************************************************************)
(* The timeout timer of v4.1 fires: timeoutPromise rejects.                *)
(***************************************************************************)
JobTimeout(jobId) ==
    /\ timer[jobId] = "armed"
    /\ now >= deadline[jobId]
    /\ Install(finishJob([Sched EXCEPT !.timer[jobId] = "fired",
                                       !.deadline[jobId] = 0], jobId,
                         Failed(TimeoutError)))
    /\ UNCHANGED <<variant, pages, cache, sem, soloDigitos, nextId, now, nextSweepAt>>
    /\ resp' = NoResp

(***************************************************************************)
(* Time passes up to the next instant at which a timer is due.             *)
(***************************************************************************)
SetMin(S) == CHOOSE x \in S : \A y \in S : x <= y

NextDue == SetMin({deadline[j] : j \in {i \in Ids : timer[i] = "armed"}}
                  \cup {nextSweepAt})

Tick ==
    /\ variant \in Variants
    /\ NextDue > now
    /\ NextDue <= MaxSweeps * JOB_TTL_MS
    /\ now' = NextDue
    /\ UNCHANGED <<variant, pages, cache, sem, soloDigitos, jobs, queue, activeJobs, nextId, race, call,
                   timer, deadline, browserPromise, nextSweepAt>>
    /\ resp' = NoResp
    /\ UNCHANGED <<launched, joined>>

(***************************************************************************)
(* Next: the steps that change the state of the scheduler.  ApiNext adds   *)
(* the request paths that only answer the caller: the rejection of a       *)
(* malformed /buscar, /resultado/:jobId and /health.                       *)
(***************************************************************************)
Next ==
    \/ \E radicado \in Radicados : BuscarAccepted(radicado)
    \/ Sweep
    \/ LaunchResolves
    \/ LaunchRejects
    \/ \E jobId \in Ids : ConsultaLaunchFailed(jobId)
    \/ \E jobId \in Ids : ConsultaNewPage(jobId)
    \/ \E jobId \in Ids : ConsultaNewPageFails(jobId)
    \/ \E jobId \in Ids : ConsultaReturns(jobId)
    \/ \E jobId \in Ids : ConsultaThrows(jobId)
    \/ \E jobId \in Ids : JobTimeout(jobId)
    \/ Tick

ApiNext ==
    \/ Next
    \/ \E radicado \in Radicados : BuscarRejected(radicado)
    \/ \E jobId \in Ids : Resultado(jobId)
    \/ Health

Spec == Init /\ [][Next]_vars

ApiSpec == Init /\ [][ApiNext]_vars

(***************************************************************************)
(* Version 2.0: GET /buscar runs consultaRama itself and answers when the  *)
(* call ends.  There is no job store, no queue and no timer; a request is  *)
(* numbered like a job so that its call can be told from the others.       *)
(***************************************************************************)
SyncBuscar(radicado) ==
    /\ variant = "v2.0"
    /\ Len(radicado) # 0
    /\ Len(SoloDigitos(radicado)) = RADICADO_LEN
    /\ nextId < MaxJobs
    /\ Install(startConsulta(Sched, nextId + 1))
    /\ nextId' = nextId + 1
    /\ resp' = NoResp
    /\ UNCHANGED <<variant, pages, cache, sem, soloDigitos, now, nextSweepAt>>

PoolInit == variant \in PoolVariants /\ Started

PoolNext ==
    \/ Next
    \/ \E radicado \in Radicados : SyncBuscar(radicado)

PoolSpec == PoolInit /\ [][PoolNext]_vars

(***************************************************************************)
(* Version 4.1, shutdown(signal): the browser behind browserPromise is     *)
(* closed; browserPromise itself is left as it is.  The process exits when *)
(* the HTTP server has closed, or ten seconds later; what is modelled is   *)
(* the server until then, where the admitted executions end and the queue  *)
(* goes on being served.  With no browser launched, or a rejected launch,  *)
(* shutdown leaves the pool as it is.                                      *)
(***************************************************************************)
Shutdown ==
    /\ variant = "v4.1"
    /\ browserPromise = "fulfilled"
    /\ launched[Len(launched)] = "fulfilled"
    /\ launched' = [launched EXCEPT ![Len(launched)] = "closed"]
    /\ resp' = NoResp
    /\ UNCHANGED <<variant, cache, sem, soloDigitos, jobs, queue, activeJobs,
                   nextId, race, call, timer, deadline, browserPromise, now,
                   nextSweepAt, joined>>
    /\ pages' = {}

ShutdownInit == variant = "v4.1" /\ Started

ShutdownNext ==
    \/ Next
    \/ Shutdown

ShutdownSpec == ShutdownInit /\ [][ShutdownNext]_vars

(***************************************************************************)
(* Version 2.3: GET /buscar answers from the cache or creates a job and    *)
(* runs consultaRama behind withSemaphore from a setImmediate callback.    *)
(* Here queue holds the resolvers of the callers blocked in withSemaphore  *)
(* (one entry per blocked job) and activeJobs is its counter `active`.     *)
(* A woken caller resumes in a microtask: after the step that woke it and  *)
(* before any other callback, all of which are macrotasks or continuations *)
(* queued behind it.                                                       *)
(***************************************************************************)
Sem == [jobs |-> jobs, queue |-> queue, activeJobs |-> activeJobs,
        call |-> call, browserPromise |-> browserPromise,
        launched |-> launched, joined |-> joined, sem |-> sem,
        cache |-> cache]

InstallSem(s) ==
    /\ jobs' = s.jobs
    /\ queue' = s.queue
    /\ activeJobs' = s.activeJobs
    /\ call' = s.call
    /\ browserPromise' = s.browserPromise
    /\ launched' = s.launched
    /\ joined' = s.joined
    /\ sem' = s.sem
    /\ cache' = s.cache

\* withSemaphore after its wait: active++ and fn(), that is consultaRama up
\* to `await getBrowser()`
runFn(s, jobId) ==
    startConsulta([s EXCEPT !.activeJobs = s.activeJobs + 1,
                            !.sem[jobId] = "running"], jobId)

\* withSemaphore(fn) up to its first await
withSemaphore(s, jobId) ==
    IF s.activeJobs >= MAX_CONCURRENT
    THEN [s EXCEPT !.queue = Append(s.queue, [jobId |-> jobId]),
                   !.sem[jobId] = "waiting"]
    ELSE runFn(s, jobId)

\* variant of release: the slot is given back, the waiters are left alone
releaseNoWake(s, jobId) ==
    [s EXCEPT !.activeJobs = s.activeJobs - 1,
              !.sem[jobId] = "done",
              !.call[jobId] = "settled"]

\* the `finally` of withSemaphore: active--, and the resolver of the first
\* waiter is called
release(s, jobId) ==
    LET s1 == [s EXCEPT !.activeJobs = s.activeJobs - 1,
                        !.sem[jobId] = "done",
                        !.call[jobId] = "settled"]
    IN IF Len(s1.queue) > 0
       THEN [s1 EXCEPT !.queue = Tail(s1.queue),
                       !.sem[Head(s1.queue).jobId] = "woken"]
       ELSE s1

\* the job fields the setImmediate callback writes when the record exists
setJob(m, jobId, updates) ==
    IF jobId \in DOMAIN m THEN MapSet(m, jobId, Merge(m[jobId], updates)) ELSE m

\* the callback after `await withSemaphore(...)` returned data
jobSucceeded(s, jobId, key, data, t) ==
    [s EXCEPT !.cache = MapSet(s.cache, key, [createdAt |-> t, data |-> data]),
              !.jobs = setJob(s.jobs, jobId,
                              [estado |-> "COMPLETADO", result |-> data])]

\* variant of jobFailed: the error is cached like a result
jobFailedCached(s, jobId, key, message, t) ==
    [s EXCEPT !.cache = MapSet(s.cache, key,
                               [createdAt |-> t,
                                data |-> [estado |-> "ERROR",
                                          numero_radicacion |-> key]]),
              !.jobs = setJob(s.jobs, jobId,
                              [estado |-> "ERROR", error |-> message])]

\* the `catch` of the callback
jobFailed(s, jobId, key, message, t) ==
    [s EXCEPT !.jobs = setJob(s.jobs, jobId,
                              [estado |-> "ERROR", error |-> message])]

CacheInit ==
    /\ variant = "v2.3"
    /\ jobs = << >>
    /\ queue = << >>
    /\ activeJobs = 0
    /\ nextId = 0
    /\ race = [j \in Ids |-> "none"]
    /\ call = [j \in Ids |-> "none"]
    /\ timer = [j \in Ids |-> "none"]
    /\ deadline = [j \in Ids |-> 0]
    /\ browserPromise = "null"
    /\ now = 0
    /\ nextSweepAt = CLEANUP_INTERVAL_MS
    /\ resp = NoResp
    /\ launched = << >>
    /\ joined = [j \in Ids |-> 0]
    /\ cache = << >>
    /\ sem = [j \in Ids |-> "none"]
    /\ soloDigitos = [j \in Ids |-> << >>]
    /\ pages = {}

\* variant of Fresh: the age of the entry is not looked at
FreshWhilePresent(c, key, t) == key \in DOMAIN c

\* cached && now() - cached.createdAt <= CACHE_TTL_MS
Fresh(c, key, t) ==
    key \in DOMAIN c /\ t - c[key].createdAt <= CACHE_TTL_MS

\* { ...cached.data, cached: true, cache_age_ms }
CachedAnswer(item, t) ==
    [kind |-> "buscar", code |-> 200, estado |-> item.data.estado,
     numero_radicacion |-> item.data.numero_radicacion,
     cached |-> TRUE, cache_age_ms |-> t - item.createdAt]

\* variant of BuscarCached: the hit is answered behind the semaphore
BuscarCachedBehindSemaphore(radicado) ==
    /\ ~WakePending
    /\ variant = "v2.3"
    /\ Len(radicado) # 0
    /\ Len(SoloDigitos(radicado)) = RADICADO_LEN
    /\ Fresh(cache, SoloDigitos(radicado), now)
    /\ activeJobs < MAX_CONCURRENT
    /\ resp' = CachedAnswer(cache[SoloDigitos(radicado)], now)
    /\ UNCHANGED <<variant, pages, cache, sem, soloDigitos, jobs, queue, activeJobs,
                   nextId, race, call, timer, deadline, browserPromise, now,
                   nextSweepAt, launched, joined>>

\* variant of BuscarCached: the hit also registers a job
BuscarCachedWithJob(radicado) ==
    /\ ~WakePending
    /\ variant = "v2.3"
    /\ Len(radicado) # 0
    /\ Len(SoloDigitos(radicado)) = RADICADO_LEN
    /\ Fresh(cache, SoloDigitos(radicado), now)
    /\ nextId < MaxJobs
    /\ now = 0 \/ nextId < MaxTimed
    /\ nextId' = nextId + 1
    /\ jobs' = MapSet(jobs, nextId + 1,
                      [id |-> nextId + 1, estado |-> "COMPLETADO",
                       createdAt |-> now,
                       radicado |-> SoloDigitos(radicado),
                       result |-> cache[SoloDigitos(radicado)].data,
                       error |-> "null"])
    /\ resp' = CachedAnswer(cache[SoloDigitos(radicado)], now)
    /\ UNCHANGED <<variant, pages, cache, sem, soloDigitos, queue, activeJobs,
                   race, call, timer, deadline, browserPromise, now,
                   nextSweepAt, launched, joined>>

\* GET /buscar, the cache holds a fresh entry for the key
BuscarCached(radicado) ==
    /\ ~WakePending
    /\ variant = "v2.3"
    /\ Len(radicado) # 0
    /\ Len(SoloDigitos(radicado)) = RADICADO_LEN
    /\ Fresh(cache, SoloDigitos(radicado), now)
    /\ resp' = CachedAnswer(cache[SoloDigitos(radicado)], now)
    /\ UNCHANGED <<variant, pages, cache, sem, soloDigitos, jobs, queue, activeJobs,
                   nextId, race, call, timer, deadline, browserPromise, now,
                   nextSweepAt, launched, joined>>

\* GET /buscar, no fresh entry: create the job, answer 202, setImmediate
BuscarAsync(radicado) ==
    /\ ~WakePending
    /\ variant = "v2.3"
    /\ Len(radicado) # 0
    /\ Len(SoloDigitos(radicado)) = RADICADO_LEN
    /\ ~Fresh(cache, SoloDigitos(radicado), now)
    /\ nextId < MaxJobs
    /\ now = 0 \/ nextId < MaxTimed
    /\ nextId' = nextId + 1
    /\ jobs' = MapSet(jobs, nextId + 1,
                      [id |-> nextId + 1, estado |-> "EN_PROCESO",
                       createdAt |-> now,
                       radicado |-> SoloDigitos(radicado),
                       result |-> NoData, error |-> "null"])
    /\ sem' = [sem EXCEPT ![nextId + 1] = "scheduled"]
    /\ soloDigitos' = [soloDigitos EXCEPT ![nextId + 1] = SoloDigitos(radicado)]
    /\ resp' = [kind |-> "buscar", code |-> 202, estado |-> "EN_PROCESO",
                job_id |-> nextId + 1,
                numero_radicacion |-> SoloDigitos(radicado)]
    /\ UNCHANGED <<variant, pages, cache, queue, activeJobs, race, call, timer,
                   deadline, browserPromise, now, nextSweepAt, launched,
                   joined>>

\* the setImmediate callback up to its first await
Immediate(jobId) ==
    /\ ~WakePending
    /\ sem[jobId] = "scheduled"
    /\ InstallSem(withSemaphore(Sem, jobId))
    /\ resp' = NoResp
    /\ UNCHANGED <<variant, pages, soloDigitos, nextId, race, timer, deadline, now,
                   nextSweepAt>>

\* a woken caller resumes after its `await`: active++ and fn()
Resume(jobId) ==
    /\ sem[jobId] = "woken"
    /\ InstallSem(runFn(Sem, jobId))
    /\ resp' = NoResp
    /\ UNCHANGED <<variant, pages, soloDigitos, nextId, race, timer, deadline,
                   now, nextSweepAt>>

\* what consultaRama returns: the found process or the NO_ENCONTRADO object
Data(estado, key) == [estado |-> estado, numero_radicacion |-> key]

\* `await getBrowser()` rejects inside consultaRama
ScrapeLaunchFailed(jobId) ==
    /\ ~WakePending
    /\ sem[jobId] = "running"
    /\ call[jobId] = "awaitBrowser"
    /\ Handle(jobId) = "rejected"
    /\ InstallSem(jobFailed(release(Sem, jobId), jobId, soloDigitos[jobId],
                            LaunchError, now))
    /\ resp' = NoResp
    /\ UNCHANGED <<variant, pages, soloDigitos, nextId, race, timer, deadline, now,
                   nextSweepAt>>

\* browser.newPage() rejects
ScrapeNewPageFails(jobId) ==
    /\ ~WakePending
    /\ sem[jobId] = "running"
    /\ call[jobId] = "awaitBrowser"
    /\ Handle(jobId) = "fulfilled"
    /\ InstallSem(jobFailed(release(Sem, jobId), jobId, soloDigitos[jobId],
                            NewPageError, now))
    /\ resp' = NoResp
    /\ UNCHANGED <<variant, pages, soloDigitos, nextId, race, timer, deadline, now,
                   nextSweepAt>>

\* consultaRama returns
ScrapeReturns(jobId) ==
    /\ ~WakePending
    /\ sem[jobId] = "running"
    /\ call[jobId] = "page"
    /\ InstallSem(jobSucceeded(release(Sem, jobId), jobId,
                               soloDigitos[jobId],
                               Data(CacheResult(soloDigitos[jobId]),
                                    soloDigitos[jobId]), now))
    /\ resp' = NoResp
    /\ UNCHANGED <<variant, soloDigitos, nextId, race, timer, deadline, now,
                   nextSweepAt>>
    /\ pages' = closePage(pages, jobId)

\* consultaRama throws after the page was opened
ScrapeThrows(jobId) ==
    /\ ~WakePending
    /\ sem[jobId] = "running"
    /\ call[jobId] = "page"
    /\ \E message \in CacheErrors :
           InstallSem(jobFailed(release(Sem, jobId), jobId, soloDigitos[jobId],
                                message, now))
    /\ resp' = NoResp
    /\ UNCHANGED <<variant, soloDigitos, nextId, race, timer, deadline, now,
                   nextSweepAt>>
    /\ pages' = closePage(pages, jobId)

\* t - job.createdAt > JOB_TTL_MS
StaleJobs(m, t) == {id \in DOMAIN m : t - m[id].createdAt > JOB_TTL_MS_V23}

\* t - item.createdAt > CACHE_TTL_MS
StaleEntries(c, t) == {rad \in DOMAIN c : t - c[rad].createdAt > CACHE_TTL_MS}

\* variant of cleanupMaps: the array of waiting resolvers is emptied too
cleanupMapsDropsWaiters ==
    /\ ~WakePending
    /\ variant = "v2.3"
    /\ now >= nextSweepAt
    /\ jobs' = MapDelete(jobs, StaleJobs(jobs, now))
    /\ cache' = MapDelete(cache, StaleEntries(cache, now))
    /\ queue' = << >>
    /\ nextSweepAt' = nextSweepAt + CLEANUP_INTERVAL_MS
    /\ resp' = NoResp
    /\ UNCHANGED <<variant, pages, sem, soloDigitos, activeJobs, nextId, race,
                   call, timer, deadline, browserPromise, now, launched,
                   joined>>

cleanupMaps ==
    /\ ~WakePending
    /\ variant = "v2.3"
    /\ now >= nextSweepAt
    /\ jobs' = MapDelete(jobs, StaleJobs(jobs, now))
    /\ cache' = MapDelete(cache, StaleEntries(cache, now))
    /\ nextSweepAt' = nextSweepAt + CLEANUP_INTERVAL_MS
    /\ resp' = NoResp
    /\ UNCHANGED <<variant, pages, sem, soloDigitos, queue, activeJobs, nextId, race,
                   call, timer, deadline, browserPromise, now, launched,
                   joined>>

\* The instants at which the model looks at version 2.3: every multiple of
\* its cache TTL and the cleanup periods that follow it.
Instants ==
    {b * CACHE_TTL_MS + a * CLEANUP_INTERVAL_MS :
        b \in 0..MaxTtls, a \in 0..MaxLate}

NextInstant == SetMin({t \in Instants : t > now})

\* the last cleanup that ran strictly before instant t, or 0 when none did
LastCleanupBefore(t) ==
    IF t - CLEANUP_INTERVAL_MS >= nextSweepAt
    THEN t - CLEANUP_INTERVAL_MS ELSE 0

\* Time passes up to the next instant.  The cleanups that come due on the
\* way run on time; the one due at the instant itself is left pending.
\* The model lets time pass in the runs with at most MaxTimed jobs; the runs
\* with more jobs stay at the instant of the start.
\* Ages only grow, so what the last of those cleanups deletes includes what
\* the earlier ones deleted.
CacheTick ==
    /\ ~WakePending
    /\ variant = "v2.3"
    /\ nextId <= MaxTimed
    /\ now < nextSweepAt
    /\ \E t \in Instants : t > now
    /\ now' = NextInstant
    /\ jobs' = MapDelete(jobs, StaleJobs(jobs, LastCleanupBefore(NextInstant)))
    /\ cache' = MapDelete(cache,
                          StaleEntries(cache, LastCleanupBefore(NextInstant)))
    /\ nextSweepAt' = NextInstant
    /\ resp' = NoResp
    /\ UNCHANGED <<variant, pages, sem, soloDigitos, queue, activeJobs,
                   nextId, race, call, timer, deadline, browserPromise,
                   launched, joined>>

CacheNext ==
    \/ \E radicado \in CacheRadicados : BuscarCached(radicado)
    \/ \E radicado \in CacheRadicados : BuscarAsync(radicado)
    \/ \E jobId \in Ids : Immediate(jobId)
    \/ \E jobId \in Ids : Resume(jobId)
    \/ LaunchResolves
    \/ LaunchRejects
    \/ \E jobId \in Ids : ConsultaNewPage(jobId)
    \/ \E jobId \in Ids : ScrapeLaunchFailed(jobId)
    \/ \E jobId \in Ids : ScrapeNewPageFails(jobId)
    \/ \E jobId \in Ids : ScrapeReturns(jobId)
    \/ \E jobId \in Ids : ScrapeThrows(jobId)
    \/ cleanupMaps
    \/ CacheTick

CacheSpec == CacheInit /\ [][CacheNext]_vars

(***************************************************************************)
(* The versions that sweep their maps on a timer, side by side: server.js  *)
(* and version 4.1 with their sweep of the job store, version 2.3 with     *)
(* cleanupMaps.                                                            *)
(***************************************************************************)
SweepInit == Init \/ CacheInit

SweepNext ==
    \/ variant \in Variants /\ Next
    \/ variant = "v2.3" /\ CacheNext

SweepSpec == SweepInit /\ [][SweepNext]_vars

(***************************************************************************)
(* The semaphore of version 2.3 on its own: the same server while no       *)
(* cleanup period passes.                                                  *)
(***************************************************************************)
SemInternal ==
    \/ \E jobId \in Ids : Immediate(jobId)
    \/ \E jobId \in Ids : Resume(jobId)
    \/ LaunchResolves
    \/ LaunchRejects
    \/ \E jobId \in Ids : ConsultaNewPage(jobId)
    \/ \E jobId \in Ids : ScrapeLaunchFailed(jobId)
    \/ \E jobId \in Ids : ScrapeNewPageFails(jobId)
    \/ \E jobId \in Ids : ScrapeReturns(jobId)
    \/ \E jobId \in Ids : ScrapeThrows(jobId)

SemNext ==
    \/ \E radicado \in CacheRadicados : BuscarAsync(radicado)
    \/ SemInternal

SemSpec == CacheInit /\ [][SemNext]_vars

\* the event loop runs the callbacks that are ready: a started launch
\* settles, and a started consultaRama call returns or throws
SemLiveSpec == SemSpec /\ WF_vars(SemInternal)

TypeOK ==
    /\ variant \in AllVariants
    /\ DOMAIN jobs \subseteq Ids
    /\ activeJobs \in Int
    /\ nextId \in 0..MaxJobs
    /\ browserPromise \in {"null", "pending", "fulfilled", "rejected"}

(***************************************************************************)
(* Fairness.  The event loop keeps running: while a timer is due, the      *)
(* browser launch is outstanding or a consultaRama call is in progress,    *)
(* one of them eventually takes its step.  That a call eventually ends is  *)
(* the hypothesis under which progress is claimed ("as slots free", "as    *)
(* executions complete"); how long it takes is not constrained.  Requests  *)
(* are under no obligation to arrive.                                      *)
(***************************************************************************)
Internal ==
    \/ Tick
    \/ Sweep
    \/ LaunchResolves
    \/ LaunchRejects
    \/ \E jobId \in Ids :
          \/ ConsultaLaunchFailed(jobId)
          \/ ConsultaNewPage(jobId)
          \/ ConsultaNewPageFails(jobId)
          \/ ConsultaReturns(jobId)
          \/ ConsultaThrows(jobId)
          \/ JobTimeout(jobId)

Fairness == WF_vars(Internal)

LiveSpec == Spec /\ Fairness

PoolLiveSpec == PoolSpec /\ Fairness

(***************************************************************************)
(* Vocabulary of the properties.                                           *)
(***************************************************************************)
Created == 1..nextId
Terminal == {"completed", "failed"}
InQueue(jobId) == \E i \in 1..Len(queue) : queue[i].jobId = jobId
Running == {j \in Ids : race[j] = "pending"}
WithStatus(st) == {j \in DOMAIN jobs : jobs[j].status = st}
Min(a, b) == IF a <= b THEN a ELSE b
Max(a, b) == IF a >= b THEN a ELSE b

\* a step in which the processQueue run of jobId passes its await
Settles(jobId) == race[jobId] = "pending" /\ race'[jobId] = "settled"
\* a step in which jobId is taken off the queue
Admits(jobId) == race[jobId] = "none" /\ race'[jobId] = "pending"

(***************************************************************************)
(* C1: the number of jobs admitted and not yet completed (activeJobs, the  *)
(* suspended processQueue runs, and the records in status processing) is   *)
(* at most MAX_CONCURRENT_JOBS in every reachable state.                   *)
(***************************************************************************)
C1_CeilingRespected ==
    /\ activeJobs <= MAX_CONCURRENT_JOBS
    /\ Cardinality(Running) <= MAX_CONCURRENT_JOBS
    /\ Cardinality(WithStatus("processing")) <= MAX_CONCURRENT_JOBS

C1_AtCeilingWithBacklog ==
    /\ activeJobs = MAX_CONCURRENT_JOBS
    /\ Cardinality(WithStatus("processing")) = MAX_CONCURRENT_JOBS
    /\ Len(queue) >= 1

(***************************************************************************)
(* C2: jobs leave the queue in submission order.  Job ids are numbered in  *)
(* submission order; whenever a job is admitted, every job submitted       *)
(* before it has been admitted already and every job still queued was      *)
(* submitted after it, and the queue itself is in submission order.        *)
(***************************************************************************)
C2_FifoAdmission ==
    [][\A j \in Ids :
          Admits(j) =>
              /\ \A k \in 1..(j - 1) : race'[k] # "none"
              /\ \A i \in 1..Len(queue') : queue'[i].jobId > j
              /\ \A i \in 1..(Len(queue') - 1) :
                     queue'[i].jobId < queue'[i + 1].jobId]_vars

\* job 3 waited in the queue (its timer was armed later than it was
\* created), has been admitted, and job 4 is still waiting behind it
C2_AdmittedAheadOfLater ==
    /\ variant = "v4.1"
    /\ 3 \in DOMAIN jobs
    /\ timer[3] = "armed"
    /\ deadline[3] > jobs[3].createdAt + JOB_TIMEOUT_MS
    /\ InQueue(4)

(***************************************************************************)
(* C3: a record's status only moves queued -> processing -> completed or   *)
(* failed.  A new record is queued (or already processing when the same    *)
(* handler admitted it); no step takes any other edge, and an id that has  *)
(* lost its record never gets one again.                                   *)
(***************************************************************************)
StatusEdges ==
    { <<"queued", "processing">>,
      <<"processing", "completed">>,
      <<"processing", "failed">> }

C3_StatusOrder ==
    [][/\ \A j \in DOMAIN jobs \cap DOMAIN jobs' :
             \/ jobs'[j].status = jobs[j].status
             \/ <<jobs[j].status, jobs'[j].status>> \in StatusEdges
       /\ \A j \in DOMAIN jobs' \ DOMAIN jobs :
             /\ j = nextId'
             /\ j > nextId
             /\ jobs'[j].status =
                    IF \E i \in 1..Len(queue') : queue'[i].jobId = j
                    THEN "queued" ELSE "processing"]_vars

\* one job completed, one failed, and two more are being processed
C3_BothTerminalStatesSeen ==
    /\ WithStatus("completed") # {}
    /\ WithStatus("failed") # {}
    /\ Cardinality(WithStatus("processing")) = MAX_CONCURRENT_JOBS

(***************************************************************************)
(* C4: in every state, a completed record has a result and no error, a     *)
(* failed record has an error and no result, a queued or processing record *)
(* has neither; the answer a poll builds from the record says the same.    *)
(***************************************************************************)
Coherent(status, result, error) ==
    /\ status = "completed" => result # "null" /\ error = "null"
    /\ status = "failed" => error # "null" /\ result = "null"
    /\ status \in {"queued", "processing"} => result = "null" /\ error = "null"

C4_ResultErrorCoherent ==
    /\ \A j \in DOMAIN jobs :
          /\ jobs[j].status \in {"queued", "processing"} \cup Terminal
          /\ Coherent(jobs[j].status, jobs[j].result, jobs[j].error)
    /\ \A j \in DOMAIN jobs :
          /\ PollPayload(j).status = jobs[j].status
          /\ Coherent(PollPayload(j).status, PollPayload(j).result,
                      PollPayload(j).error)

\* a failed record beside processing and queued ones, after a sweep
C4_StatesSideBySide ==
    /\ WithStatus("failed") # {}
    /\ WithStatus("processing") # {}
    /\ WithStatus("queued") # {}
    /\ nextSweepAt > JOB_TTL_MS

(***************************************************************************)
(* C5: a record that is completed or failed is not changed by any step     *)
(* that keeps it in the store; in particular the end of a consultaRama     *)
(* call whose job already failed by timeout changes nothing.               *)
(***************************************************************************)
C5_TerminalImmutable ==
    [][\A j \in DOMAIN jobs \cap DOMAIN jobs' :
          jobs[j].status \in Terminal => jobs'[j] = jobs[j]]_vars

\* a job failed by the timeout whose consultaRama call has ended since
C5_LateOutcomeAfterTimeout ==
    \E j \in DOMAIN jobs :
        /\ jobs[j].status = "failed"
        /\ jobs[j].error = TimeoutError
        /\ call[j] = "settled"

(***************************************************************************)
(* C6 as stated: once a job is terminal, the answer to a poll of its id    *)
(* never changes from one state to the next.                               *)
(***************************************************************************)
C6_PollsIdenticalAlways ==
    [][\A j \in DOMAIN jobs :
          jobs[j].status \in Terminal => PollPayload(j)' = PollPayload(j)]_vars

(***************************************************************************)
(* C6 amended: once a job is terminal, the answer to a poll of its id does *)
(* not change while its record is in the store; when the sweep has removed *)
(* the record the answer is not-found, and it stays not-found.             *)
(***************************************************************************)
C6_PollsIdenticalUntilEvicted ==
    [][/\ \A j \in DOMAIN jobs \cap DOMAIN jobs' :
             jobs[j].status \in Terminal => PollPayload(j)' = PollPayload(j)
       /\ \A j \in DOMAIN jobs \ DOMAIN jobs' :
             PollPayload(j)'.status = "not_found"
       /\ \A j \in Created \ DOMAIN jobs :
             PollPayload(j)' = PollPayload(j)]_vars

\* a poll has just answered with a terminal payload after the queue moved
C6_TerminalPollAnswered ==
    /\ resp.kind = "resultado"
    /\ resp.payload.status \in Terminal
    /\ resp.payload = PollPayload(resp.jobId)
    /\ Len(queue) >= 1

(***************************************************************************)
(* C7: every queued entry is eventually admitted.                          *)
(***************************************************************************)
C7_QueuedEventuallyAdmitted ==
    \A j \in Ids : InQueue(j) ~> (race[j] # "none")

\* job 4 waited in the queue (its timer was armed later than it was
\* created) and has been admitted; nothing is left waiting
C7_BacklogServed ==
    /\ variant = "v4.1"
    /\ 4 \in DOMAIN jobs
    /\ timer[4] = "armed"
    /\ deadline[4] > jobs[4].createdAt + JOB_TIMEOUT_MS
    /\ Len(queue) = 0

(***************************************************************************)
(* C8.  Before any execution has finished, k submits leave min(k, C)       *)
(* executions in progress and max(0, k - C) entries queued, and the        *)
(* records show those statuses as long as none has been swept.             *)
(***************************************************************************)
C8_Immediate ==
    (\A j \in Ids : race[j] # "settled") =>
        /\ Cardinality(Running) = Min(nextId, MAX_CONCURRENT_JOBS)
        /\ Len(queue) = Max(0, nextId - MAX_CONCURRENT_JOBS)
        /\ \A j \in DOMAIN jobs :
              jobs[j].status = IF j \in Running THEN "processing" ELSE "queued"
        /\ DOMAIN jobs = Created =>
              /\ Cardinality(WithStatus("processing"))
                     = Min(nextId, MAX_CONCURRENT_JOBS)
              /\ Cardinality(WithStatus("queued"))
                     = Max(0, nextId - MAX_CONCURRENT_JOBS)

Pending(jobId) ==
    jobId \in DOMAIN jobs /\ jobs[jobId].status \in {"queued", "processing"}

(***************************************************************************)
(* C8 as stated: the counts hold right after the submits and every job     *)
(* eventually becomes completed or failed.  Identifiers are never reused   *)
(* and a job's state lives only in its record, so a job that is to become  *)
(* completed or failed is never dropped while it is queued or processing.  *)
(***************************************************************************)
C8_EveryJobBecomesTerminal ==
    /\ []C8_Immediate
    /\ [][\A j \in Ids : Pending(j) => j \in DOMAIN jobs']_vars

\* every execution has finished, nothing is queued, and every record that
\* is still in the store is completed or failed
C8_AllFinished ==
    /\ Len(queue) = 0
    /\ \A j \in Created :
          /\ race[j] = "settled"
          /\ j \in DOMAIN jobs => jobs[j].status \in Terminal

(***************************************************************************)
(* C8 amended: the counts hold right after the submits, the queue drains   *)
(* to 0 and the execution of every job eventually finishes; its record     *)
(* becomes completed or failed unless the sweep removed it first.          *)
(***************************************************************************)
C8_EveryExecutionFinishes ==
    /\ []C8_Immediate
    /\ []<>C8_AllFinished

\* four submits and no completion yet: two in progress, two queued
C8_FourSubmitsTwoRunning ==
    /\ nextId = 4
    /\ \A j \in Ids : race[j] # "settled"
    /\ DOMAIN jobs = Created
    /\ Cardinality(WithStatus("processing")) = 2
    /\ Cardinality(WithStatus("queued")) = 2
    /\ Len(queue) = 2

\* the step in which the timeout timer of a pending execution fires
TimesOut(jobId) == timer[jobId] = "armed" /\ timer'[jobId] = "fired"

(***************************************************************************)
(* C9 in the version with JOB_TIMEOUT_MS: no execution is left in progress *)
(* past its deadline, and the step in which the timeout fires makes the    *)
(* job failed with the timeout error, releases the slot and hands it to    *)
(* the head of the queue in the same step, while the consultaRama call of  *)
(* the timed-out job is where it was.                                      *)
(***************************************************************************)
C9_TimeoutFreesSlot ==
    [][/\ \A j \in Ids :
             (variant' = "v4.1" /\ race'[j] = "pending") =>
                 (timer'[j] = "armed" /\ now' <= deadline'[j])
       /\ \A j \in Ids :
             TimesOut(j) =>
                 /\ race[j] = "pending" /\ race'[j] = "settled"
                 /\ call'[j] = call[j]
                 /\ j \in DOMAIN jobs =>
                        /\ jobs'[j].status = "failed"
                        /\ jobs'[j].error = TimeoutError
                        /\ jobs'[j].result = "null"
                 /\ IF Len(queue) > 0
                    THEN /\ race'[Head(queue).jobId] = "pending"
                         /\ queue' = Tail(queue)
                         /\ activeJobs' = activeJobs
                    ELSE /\ queue' = queue
                         /\ activeJobs' = activeJobs - 1]_vars

(***************************************************************************)
(* C9 as stated, for every version: an execution that has run longer than  *)
(* the per-execution timeout is no longer in progress.  The first          *)
(* MAX_CONCURRENT_JOBS jobs are admitted by the request that creates them, *)
(* so their createdAt is the instant their execution started.              *)
(***************************************************************************)
C9_NoExecutionPastTimeout ==
    \A j \in 1..MAX_CONCURRENT_JOBS :
        (j \in DOMAIN jobs /\ race[j] = "pending") =>
            now <= jobs[j].createdAt + JOB_TIMEOUT_MS

\* job 1 timed out while its call was still running, and the slot went to
\* job 3 at that instant
C9_TimedOutSlotReused ==
    /\ 1 \in DOMAIN jobs
    /\ jobs[1].error = TimeoutError
    /\ call[1] # "settled"
    /\ race[2] = "pending"
    /\ race[3] = "pending"
    /\ deadline[3] = now + JOB_TIMEOUT_MS
    /\ now = jobs[1].createdAt + JOB_TIMEOUT_MS

(***************************************************************************)
(* C10.  The step in which an execution ends, whatever its outcome,        *)
(* decrements activeJobs and re-drives admission: the head of the queue,   *)
(* if any, takes the slot.  No record other than those two changes, no     *)
(* other execution is touched and the rest of the queue keeps its order.   *)
(***************************************************************************)
C10_FailureIsolated ==
    [][\A j \in Ids :
          Settles(j) =>
              /\ IF Len(queue) > 0
                 THEN /\ race'[Head(queue).jobId] = "pending"
                      /\ queue' = Tail(queue)
                      /\ activeJobs' = activeJobs
                 ELSE /\ queue' = queue
                      /\ activeJobs' = activeJobs - 1
              /\ DOMAIN jobs' = DOMAIN jobs
              /\ \A k \in Ids \ {j} :
                    /\ k \in DOMAIN jobs /\ ~(Len(queue) > 0 /\ k = Head(queue).jobId)
                           => jobs'[k] = jobs[k]
                    /\ k \in DOMAIN jobs /\ Len(queue) > 0 /\ k = Head(queue).jobId
                           => jobs'[k] = [jobs[k] EXCEPT !.status = "processing"]
                    /\ ~(Len(queue) > 0 /\ k = Head(queue).jobId)
                           => race'[k] = race[k] /\ call'[k] = call[k]
                    /\ timer'[k] = timer[k] \/ Admits(k)]_vars

\* a job failed while another was being processed; the other one completed
\* later and a third took the slot of the failed one
C10_FailedBesideOthers ==
    \E j, k \in DOMAIN jobs :
        /\ jobs[j].status = "failed"
        /\ jobs[j].error \in ScrapeErrors
        /\ jobs[k].status = "completed"
        /\ k < j
        /\ \E m \in DOMAIN jobs : m > j /\ jobs[m].status = "processing"

(***************************************************************************)
(* C11: getBrowser() calls made while a creation is in progress start no   *)
(* further creation and all await that one; at most one creation is in     *)
(* progress at any time, and as long as none has failed there has been at  *)
(* most one, which every call made so far has received.                    *)
(***************************************************************************)
Creations == 1..Len(launched)

C11_SingleCreation ==
    /\ Cardinality({i \in Creations : launched[i] = "pending"}) <= 1
    /\ \A j \in Ids : call[j] # "none" => joined[j] \in Creations
    /\ \A j, k \in Ids :
          (Handle(j) = "pending" /\ Handle(k) = "pending") =>
              joined[j] = joined[k]
    /\ (\A i \in Creations : launched[i] # "rejected") =>
          /\ Len(launched) <= 1
          /\ \A j \in Ids : call[j] # "none" => joined[j] = 1

\* three calls are waiting for the one browser that is being created
C11_ThreeCallersOneLaunch ==
    /\ Cardinality({j \in Ids : call[j] = "awaitBrowser"}) >= 3
    /\ Len(launched) = 1
    /\ launched[1] = "pending"

\* a step in which jobId's consultaRama call makes its getBrowser() call
CallsGetBrowser(jobId) == joined[jobId] = 0 /\ joined'[jobId] # 0

(***************************************************************************)
(* C12 as stated, for every version: a failed creation is not remembered.  *)
(* A getBrowser() call never returns the promise of a launch that has      *)
(* already failed; it starts a new creation or joins the one in progress   *)
(* or the one that succeeded.                                              *)
(***************************************************************************)
C12_FailedLaunchNotRemembered ==
    [][\A j \in Ids :
          CallsGetBrowser(j) => launched'[joined'[j]] # "rejected"]_vars

(***************************************************************************)
(* C12 in version 2.0: after a failed creation browserPromise is null      *)
(* again, and the next getBrowser() call starts a new creation.            *)
(***************************************************************************)
C12_PoolResetsInV20 ==
    [][variant = "v2.0" =>
          /\ browserPromise' # "rejected"
          /\ \A j \in Ids :
                (CallsGetBrowser(j) /\ Len(launched) > 0
                     /\ launched[Len(launched)] = "rejected") =>
                    /\ Len(launched') = Len(launched) + 1
                    /\ joined'[j] = Len(launched')
                    /\ launched'[joined'[j]] = "pending"]_vars

\* version 2.0: the first launch failed, the second succeeded and a request
\* made after the failure has just been answered with a result
C12_SecondLaunchServes ==
    /\ variant = "v2.0"
    /\ Len(launched) = 2
    /\ launched[1] = "rejected"
    /\ launched[2] = "fulfilled"
    /\ resp = [kind |-> "buscar", code |-> 200, body |-> "ENCONTRADO"]

(***************************************************************************)
(* C13: a call that joined a creation attempt which failed can only end    *)
(* with that failure (its job, if the execution is still in progress,      *)
(* becomes failed with the launch error; in version 2.0 its caller gets    *)
(* the error), it never gets a page, and it does end.  A creation starts   *)
(* only in a step in which some call makes its getBrowser() call.          *)
(***************************************************************************)
JoinedFailedLaunch(jobId) ==
    call[jobId] = "awaitBrowser" /\ Handle(jobId) = "rejected"

C13_FailureReachesWaiters ==
    /\ [][/\ \A j \in Ids :
                (JoinedFailedLaunch(j) /\ call'[j] # call[j]) =>
                    /\ call'[j] = "settled"
                    /\ (j \in DOMAIN jobs /\ race[j] = "pending") =>
                           /\ jobs'[j].status = "failed"
                           /\ jobs'[j].error = LaunchError
                    /\ variant = "v2.0" =>
                           resp' = [kind |-> "buscar", code |-> 500,
                                    body |-> LaunchError]
          /\ Len(launched') # Len(launched) =>
                /\ Len(launched') = Len(launched) + 1
                /\ \E j \in Ids :
                      CallsGetBrowser(j) /\ joined'[j] = Len(launched')]_vars
    /\ [](\A j \in Ids : call[j] = "page" => Handle(j) = "fulfilled")
    /\ []<>(\A j \in Ids : ~JoinedFailedLaunch(j))

\* two jobs joined the same creation attempt and both failed with its error
C13_BothWaitersFailed ==
    \E j, k \in DOMAIN jobs :
        /\ j # k
        /\ joined[j] = joined[k]
        /\ Handle(j) = "rejected"
        /\ jobs[j].error = LaunchError
        /\ jobs[k].error = LaunchError

(***************************************************************************)
(* C14: a consultaRama call that ends before it has a page (the launch or  *)
(* newPage failed) ends the execution of its job, and the record becomes   *)
(* failed with that error.  Every step that makes a job failed stores an   *)
(* error, sends no HTTP response, gives the slot to the head of the queue  *)
(* or frees it, and leaves no entry queued beside a free slot.  The answer *)
(* to a submit is the 200 "queued" answer and carries no error.            *)
(***************************************************************************)
C14_FailureRecordedOnJob ==
    [][/\ \A j \in Ids :
             /\ (call[j] = "awaitBrowser" /\ call'[j] = "settled"
                    /\ race[j] = "pending") =>
                   /\ Settles(j)
                   /\ j \in DOMAIN jobs =>
                          /\ jobs'[j].status = "failed"
                          /\ jobs'[j].error \in {LaunchError, NewPageError}
                          /\ jobs'[j].result = "null"
             /\ (Settles(j) /\ j \in DOMAIN jobs
                    /\ jobs'[j].status = "failed") =>
                   /\ jobs'[j].error # "null"
                   /\ resp' = NoResp
                   /\ IF Len(queue) > 0
                      THEN /\ race'[Head(queue).jobId] = "pending"
                           /\ activeJobs' = activeJobs
                      ELSE activeJobs' = activeJobs - 1
                   /\ activeJobs' < MAX_CONCURRENT_JOBS => Len(queue') = 0
       /\ resp'.kind = "buscar" =>
             /\ resp'.code = 200
             /\ resp'.status = "queued"
             /\ DOMAIN resp' = {"kind", "code", "jobId", "numero_radicacion",
                                "status", "queue_position"}]_vars

\* a job failed because no page could be opened, and a job that was queued
\* behind it has completed since
C14_SchedulerGoesOn ==
    \E j, k \in DOMAIN jobs :
        /\ jobs[j].error = NewPageError
        /\ k > MAX_CONCURRENT_JOBS
        /\ k > j
        /\ jobs[k].status = "completed"

\* a step of the periodic sweep
Sweeps == nextSweepAt' # nextSweepAt

(***************************************************************************)
(* C15: a sweep run at instant now removes exactly the records with        *)
(* now - createdAt > JOB_TTL_MS; every other record stays as it was,       *)
(* whatever its status, and no record appears.                             *)
(***************************************************************************)
C15_SweepEvictsByAge ==
    [][Sweeps =>
          /\ DOMAIN jobs' \subseteq DOMAIN jobs
          /\ \A j \in DOMAIN jobs :
                IF now - jobs[j].createdAt > JOB_TTL_MS
                THEN j \notin DOMAIN jobs'
                ELSE j \in DOMAIN jobs' /\ jobs'[j] = jobs[j]]_vars

\* the sweep has just run: it dropped a record and kept one whose age is
\* exactly the TTL
C15_KeptAtExactlyTtl ==
    /\ nextSweepAt = now + JOB_TTL_MS
    /\ Created \ DOMAIN jobs # {}
    /\ \E j \in DOMAIN jobs : now - jobs[j].createdAt = JOB_TTL_MS

\* jobs whose record the sweep has removed
Evicted == Created \ DOMAIN jobs

NotFound ==
    [code |-> 404, status |-> "not_found", queue_position |-> 0,
     result |-> "null", error |-> "Job no encontrado o expirado"]

(***************************************************************************)
(* C16: a sweep that evicts a job whose execution is in progress changes   *)
(* nothing but the store.  The execution goes on and ends; the step in     *)
(* which it ends releases the slot as for any other job and creates no     *)
(* record; activeJobs always counts the executions in progress and an      *)
(* execution that has ended stays ended, so the slot is released once.     *)
(* From the sweep onwards a poll of the identifier is answered not-found.  *)
(***************************************************************************)
C16_EvictionLeavesExecution ==
    /\ [][/\ \A j \in Ids :
                /\ (j \in DOMAIN jobs /\ j \notin DOMAIN jobs') =>
                      /\ Sweeps
                      /\ UNCHANGED <<queue, activeJobs, race, call, timer,
                                     deadline, browserPromise>>
                /\ j \in Evicted =>
                      /\ j \in Evicted'
                      /\ PollPayload(j) = NotFound
                      /\ PollPayload(j)' = NotFound
                /\ (j \in Evicted /\ Settles(j)) =>
                      IF Len(queue) > 0
                      THEN /\ race'[Head(queue).jobId] = "pending"
                           /\ activeJobs' = activeJobs
                      ELSE activeJobs' = activeJobs - 1
                /\ race[j] = "settled" => race'[j] = "settled"]_vars
    /\ [](activeJobs = Cardinality(Running))
    /\ []<>(\A j \in Evicted : race[j] # "pending")

\* the record of a job was swept while its consultaRama call has a page open
C16_EvictedWhileRunning ==
    \E j \in Evicted : race[j] = "pending" /\ call[j] = "page"

(***************************************************************************)
(* Vocabulary of version 2.3.  A step is a submit when it answers          *)
(* GET /buscar for a valid key; the key is the numero_radicacion of the    *)
(* answer.                                                                 *)
(***************************************************************************)
Submits ==
    /\ variant = "v2.3"
    /\ resp'.kind = "buscar"
    /\ resp'.code # 400

SubmitKey == resp'.numero_radicacion

\* the executions withSemaphore has let in and that have not ended
InSlot == {j \in Ids : sem[j] = "running"}

(***************************************************************************)
(* C17: a submit whose key has a cache entry no older than CACHE_TTL_MS    *)
(* is answered 200 with the data of that entry, marked cached and carrying *)
(* its age; the step creates no job record and generates no identifier,    *)
(* schedules and starts no execution, and leaves the semaphore (its        *)
(* counter, its waiters, the position of every job) and the cache as they  *)
(* were.                                                                   *)
(***************************************************************************)
C17_HitServedFromCache ==
    [][(/\ Submits
        /\ SubmitKey \in DOMAIN cache
        /\ now - cache[SubmitKey].createdAt <= CACHE_TTL_MS) =>
          /\ resp'.code = 200
          /\ resp'.cached
          /\ resp'.estado = cache[SubmitKey].data.estado
          /\ resp'.cache_age_ms = now - cache[SubmitKey].createdAt
          /\ UNCHANGED <<jobs, nextId, sem, soloDigitos, call, joined,
                         launched, browserPromise, activeJobs, queue,
                         cache>>]_vars

\* a submit was answered from an entry exactly CACHE_TTL_MS old
C17_HitAtExactlyTtl ==
    /\ resp.kind = "buscar"
    /\ resp.code = 200
    /\ resp.cached
    /\ resp.cache_age_ms = CACHE_TTL_MS

\* the execution of job j ends in this step
Ends(j) == sem[j] = "running" /\ sem'[j] = "done"

\* the entry of key k is created or replaced in this step
Written(k) ==
    /\ k \in DOMAIN cache'
    /\ k \in DOMAIN cache => cache'[k] # cache[k]

(***************************************************************************)
(* C18: in version 2.3 a cache entry is created or replaced only in the    *)
(* step in which an execution for that key returns: the entry holds the    *)
(* returned object (found or NO_ENCONTRADO) stamped with the current time, *)
(* and the job, if its record is still stored, becomes COMPLETADO with     *)
(* that object.  A step in which an execution ends by throwing (the job    *)
(* becomes ERROR: rejected launch, newPage failure, wait timeout) leaves   *)
(* the cache as it was.                                                    *)
(***************************************************************************)
C18_CacheWrittenOnReturnOnly ==
    [][/\ \A k \in DOMAIN cache' :
            Written(k) =>
               \E j \in Ids :
                  /\ Ends(j)
                  /\ call[j] = "page"
                  /\ soloDigitos[j] = k
                  /\ cache'[k].createdAt = now
                  /\ cache'[k].data.numero_radicacion = k
                  /\ cache'[k].data.estado \in {"ENCONTRADO", "NO_ENCONTRADO"}
                  /\ j \in DOMAIN jobs' =>
                        /\ jobs'[j].estado = "COMPLETADO"
                        /\ jobs'[j].result = cache'[k].data
       /\ \A j \in Ids :
            (Ends(j) /\ j \in DOMAIN jobs' /\ jobs'[j].estado = "ERROR") =>
               cache' = cache]_vars

\* an execution threw for a key whose entry an earlier execution had written
C18_ThrowBesideEntry ==
    \E j1, j2 \in DOMAIN jobs :
        /\ j1 < j2
        /\ jobs[j1].radicado = jobs[j2].radicado
        /\ jobs[j1].estado = "COMPLETADO"
        /\ jobs[j2].estado = "ERROR"
        /\ jobs[j2].error = WaitError
        /\ jobs[j1].radicado \in DOMAIN cache
        /\ cache[jobs[j1].radicado].data = jobs[j1].result
        /\ cache[jobs[j1].radicado].createdAt < now

\* the valid spellings of a key whose entry is no older than CACHE_TTL_MS
HitRequests ==
    {r \in CacheRadicados :
        /\ Len(r) # 0
        /\ Len(SoloDigitos(r)) = RADICADO_LEN
        /\ SoloDigitos(r) \in DOMAIN cache
        /\ now - cache[SoloDigitos(r)].createdAt <= CACHE_TTL_MS}

(***************************************************************************)
(* C19: in version 2.3, whenever the key of a request has a cache entry    *)
(* no older than CACHE_TTL_MS, the handler can answer it at once from the  *)
(* entry, whatever the semaphore holds: all MAX_CONCURRENT slots taken,    *)
(* callers blocked in withSemaphore, callbacks not yet started; at most    *)
(* the continuation of a caller just woken runs first.  The                *)
(* answer is one step of the handler and awaits nothing.  An entry exists  *)
(* only after an execution returned, hence after the one launch of the     *)
(* browser succeeded: no hit meets a browser that is still being created   *)
(* or that failed to start.                                                *)
(***************************************************************************)
C19_HitNeverBlocks ==
    /\ \A r \in HitRequests : WakePending \/ ENABLED BuscarCached(r)
    /\ (variant = "v2.3" /\ DOMAIN cache # {}) => browserPromise = "fulfilled"

\* a hit was answered while every slot is taken and a caller is blocked
C19_HitWhileSaturated ==
    /\ resp.kind = "buscar"
    /\ resp.code = 200
    /\ resp.cached
    /\ Cardinality(InSlot) = MAX_CONCURRENT
    /\ activeJobs = MAX_CONCURRENT
    /\ Len(queue) > 0

(***************************************************************************)
(* C20: in version 2.3 a submit whose key has an entry older than          *)
(* CACHE_TTL_MS is not served from it, whether or not cleanupMaps has run  *)
(* since the entry went stale: the answer is 202 EN_PROCESO with a new     *)
(* identifier, and the step stores a new EN_PROCESO job for the key and    *)
(* schedules its execution.  The stale entry stays in the cache until a    *)
(* cleanup or a later execution replaces it.                               *)
(***************************************************************************)
C20_StaleEntryNotServed ==
    [][(/\ Submits
        /\ SubmitKey \in DOMAIN cache
        /\ now - cache[SubmitKey].createdAt > CACHE_TTL_MS) =>
          /\ resp'.code = 202
          /\ resp'.estado = "EN_PROCESO"
          /\ resp'.job_id = nextId'
          /\ nextId' = nextId + 1
          /\ nextId' \notin DOMAIN jobs
          /\ nextId' \in DOMAIN jobs'
          /\ jobs'[nextId'].estado = "EN_PROCESO"
          /\ jobs'[nextId'].radicado = SubmitKey
          /\ jobs'[nextId'].createdAt = now
          /\ sem'[nextId'] = "scheduled"
          /\ cache' = cache]_vars

\* a submit was answered 202 while the stale entry of its key is still stored
C20_StaleEntryStillStored ==
    /\ resp.kind = "buscar"
    /\ resp.code = 202
    /\ resp.numero_radicacion \in DOMAIN cache
    /\ now - cache[resp.numero_radicacion].createdAt > CACHE_TTL_MS
    /\ now >= nextSweepAt

\* the requests GET /buscar must refuse: no key, or not 23 digits once the
\* other characters are stripped
Malformed ==
    {r \in Radicados : Len(r) = 0 \/ Len(SoloDigitos(r)) # RADICADO_LEN}

(***************************************************************************)
(* C21: a submit whose key is missing, or does not come down to exactly    *)
(* RADICADO_LEN digits once the non-digits are stripped, can only be       *)
(* answered 400 and is never accepted; the step that answers 400 changes   *)
(* nothing: job store, identifiers issued, queue, activeJobs, the          *)
(* executions, their timers, the browser and the cache stay as they were.  *)
(***************************************************************************)
C21_MalformedRejectedCleanly ==
    /\ [](\A r \in Malformed :
             /\ ENABLED BuscarRejected(r)
             /\ ~ENABLED BuscarAccepted(r))
    /\ [][(resp'.kind = "buscar" /\ resp'.code = 400) =>
             /\ resp'.recibido # RADICADO_LEN
             /\ UNCHANGED <<jobs, nextId, queue, activeJobs, race, call,
                            timer, deadline, browserPromise, launched, joined,
                            cache, sem, now, nextSweepAt>>]_vars

\* a 22-digit key was refused while both slots are taken and a job waits
C21_RejectedWhileBusy ==
    /\ resp.kind = "buscar"
    /\ resp.code = 400
    /\ resp.recibido = RADICADO_LEN - 1
    /\ activeJobs = MAX_CONCURRENT_JOBS
    /\ Len(queue) > 0

\* the requests GET /buscar takes
WellFormed == Radicados \ Malformed

\* a step that answers GET /buscar with a job identifier
Accepts ==
    /\ variant \in Variants
    /\ resp'.kind = "buscar"
    /\ resp'.code = 200

(***************************************************************************)
(* C22: a well-formed submit is never answered 400, and with both slots    *)
(* taken, however long the queue, it can still be taken at once, at every  *)
(* instant at which the model lets a request arrive.  The step             *)
(* that answers it issues one new identifier, stores one new record for    *)
(* the stripped key, created now, and adds one entry for it at the tail of *)
(* the queue; it then runs the admission test once.                        *)
(* With both slots taken the record stays queued and the queue is one      *)
(* entry longer; otherwise the head of the lengthened queue is admitted in *)
(* the same step.  No stored record other than the admitted one changes,   *)
(* no execution ends in the step, and the answer carries the identifier,   *)
(* the status queued and the length of the queue after the test.           *)
(***************************************************************************)
C22_SubmitEnqueuesOnce ==
    /\ [](\A r \in WellFormed :
             /\ ~ENABLED BuscarRejected(r)
             /\ (/\ variant \in Variants
                 /\ nextId < MaxJobs
                 /\ Arrival(now)
                 /\ activeJobs >= MAX_CONCURRENT_JOBS) =>
                    ENABLED BuscarAccepted(r))
    /\ [][Accepts =>
           LET new == nextId + 1
               longer == Append(queue, [jobId |-> new])
               head == Head(longer).jobId
           IN /\ nextId' = new
              /\ resp'.jobId = new
              /\ resp'.status = "queued"
              /\ resp'.queue_position = Len(queue')
              /\ new \notin DOMAIN jobs
              /\ DOMAIN jobs' = DOMAIN jobs \cup {new}
              /\ jobs'[new].numero_radicacion = resp'.numero_radicacion
              /\ Len(jobs'[new].numero_radicacion) = RADICADO_LEN
              /\ jobs'[new].createdAt = now
              /\ jobs'[new].result = "null"
              /\ jobs'[new].error = "null"
              /\ \A j \in Ids : ~Settles(j)
              /\ IF activeJobs >= MAX_CONCURRENT_JOBS
                 THEN /\ jobs'[new].status = "queued"
                      /\ Len(queue') = Len(queue) + 1
                      /\ \A i \in 1..Len(queue) : queue'[i] = queue[i]
                      /\ queue'[Len(queue')].jobId = new
                      /\ activeJobs' = activeJobs
                      /\ race' = race
                      /\ \A j \in DOMAIN jobs : jobs'[j] = jobs[j]
                 ELSE /\ Admits(head)
                      /\ \A j \in Ids \ {head} : race'[j] = race[j]
                      /\ activeJobs' = activeJobs + 1
                      /\ Len(queue') = Len(queue)
                      /\ \A i \in 1..Len(queue') :
                             queue'[i].jobId = longer[i + 1].jobId
                      /\ head \in DOMAIN jobs' =>
                             jobs'[head].status = "processing"
                      /\ head # new => jobs'[new].status = "queued"
                      /\ \A j \in DOMAIN jobs \ {head} : jobs'[j] = jobs[j]
          ]_vars

\* a submit was taken as second in the queue while both slots are busy
C22_AcceptedBehindFullSlots ==
    /\ resp.kind = "buscar"
    /\ resp.code = 200
    /\ variant \in Variants
    /\ resp.queue_position = MAX_CONCURRENT_JOBS
    /\ activeJobs = MAX_CONCURRENT_JOBS
    /\ resp.jobId \in DOMAIN jobs
    /\ jobs[resp.jobId].status = "queued"

\* shutdown() has closed the browser that getBrowser() hands out
BrowserClosed == \E i \in 1..Len(launched) : launched[i] = "closed"

(***************************************************************************)
(* C23: once shutdown() has closed the shared browser, a getBrowser() call *)
(* does not resolve to the closed browser: it is rejected or it gets a     *)
(* browser launched after the shutdown.                                    *)
(***************************************************************************)
C23_NoClosedHandleAfterShutdown ==
    [][\A j \in Ids :
          (BrowserClosed /\ CallsGetBrowser(j)) =>
             launched'[joined'[j]] # "closed"]_vars

(***************************************************************************)
(* What version 4.1 does after shutdown(): getBrowser() keeps returning    *)
(* the promise of the closed browser and launches nothing; the execution   *)
(* that receives it opens no page and its job fails on browser.newPage().  *)
(***************************************************************************)
C23_ClosedHandleFailsAtNewPage ==
    [][/\ BrowserClosed => (launched' = launched /\ browserPromise' = "fulfilled")
       /\ \A j \in Ids :
            /\ (BrowserClosed /\ CallsGetBrowser(j)) =>
                  launched'[joined'[j]] = "closed"
            /\ (call[j] = "awaitBrowser" /\ Handle(j) = "closed"
                    /\ call'[j] # call[j]) =>
                  /\ call'[j] = "settled"
                  /\ (j \in DOMAIN jobs' /\ race[j] = "pending") =>
                        /\ jobs'[j].status = "failed"
                        /\ jobs'[j].error = NewPageError]_vars

\* a job admitted after the shutdown failed on the closed browser
C23_AdmittedAfterShutdownFailed ==
    \E j \in DOMAIN jobs :
        /\ joined[j] # 0
        /\ launched[joined[j]] = "closed"
        /\ call[j] = "settled"
        /\ jobs[j].status = "failed"
        /\ jobs[j].error = NewPageError
        /\ \E i \in DOMAIN jobs : i < j /\ jobs[i].status = "completed"

\* the consultaRama calls that have been made and have returned or thrown
Returned == {j \in Ids : call[j] = "settled"}

(***************************************************************************)
(* C24: a page is open on the browser only for a consultaRama call that    *)
(* is still between browser.newPage() and its return.  A call that has     *)
(* returned or thrown, whatever the exit (result, error raised on the      *)
(* page, and in version 4.1 a call that ends after its job timed out), has *)
(* closed its page in the same step; when no call is in progress no page   *)
(* is open.                                                                *)
(***************************************************************************)
C24_PageClosedOnEveryExit ==
    /\ [](pages \cap Returned = {})
    /\ []((\A j \in Ids : call[j] \in {"none", "settled"}) => pages = {})
    /\ [][\A j \in Ids :
            /\ (call[j] = "page" /\ call'[j] = "settled") =>
                  (j \in pages /\ pages' = pages \ {j})
            /\ (j \notin pages /\ j \in pages') =>
                  (call[j] = "awaitBrowser" /\ call'[j] = "page")]_vars

\* every call has returned, one with a result, one with an error and one
\* after the timeout of its job, and no page is open
C24_AllReturnedNoPage ==
    /\ Created # {}
    /\ Created \subseteq Returned
    /\ pages = {}
    /\ \E j \in DOMAIN jobs : jobs[j].status = "completed"
    /\ \E j \in DOMAIN jobs : jobs[j].error \in ScrapeErrors
    /\ \E j \in DOMAIN jobs : jobs[j].error = TimeoutError

\* a step that answers GET /resultado/:jobId
Polls == resp'.kind = "resultado"

(***************************************************************************)
(* C25: a poll of an identifier that was never issued, or whose record the *)
(* sweep has removed, is answered 404 not found.  A poll of an identifier  *)
(* whose record is stored is never answered 404: the answer carries the    *)
(* status of the record, and for a record in processing it is the 200      *)
(* processing answer, with no result and no error.  The poll changes       *)
(* nothing.                                                                *)
(***************************************************************************)
C25_NotFoundOnlyWhenAbsent ==
    [][Polls =>
         LET j == resp'.jobId
             answer == resp'.payload
         IN /\ j \in (Ids \ Created) \cup Evicted =>
                  (answer.code = 404 /\ answer.status = "not_found")
            /\ j \in DOMAIN jobs =>
                  /\ answer.code # 404
                  /\ answer.status = jobs[j].status
            /\ (j \in DOMAIN jobs /\ jobs[j].status = "processing") =>
                  /\ answer.code = 200
                  /\ answer.result = "null"
                  /\ answer.error = "null"
            /\ UNCHANGED <<jobs, queue, activeJobs, nextId, race, call>>
      ]_vars

\* the poll of an evicted identifier was answered while another job runs
C25_EvictedPolledBesideProcessing ==
    /\ resp.kind = "resultado"
    /\ resp.jobId \in Evicted
    /\ resp.payload.code = 404
    /\ \E j \in DOMAIN jobs : jobs[j].status = "processing"
    /\ nextId < MaxJobs

\* every record that stays stored keeps its key and its createdAt, changes
\* its result only on becoming completed and its error only on becoming
\* failed; a new record is stamped with the time of the submit, and an
\* update of an identifier that is not stored creates no record
MergeOnly ==
    /\ \A j \in DOMAIN jobs \cap DOMAIN jobs' :
          /\ jobs'[j].createdAt = jobs[j].createdAt
          /\ jobs'[j].numero_radicacion = jobs[j].numero_radicacion
          /\ DOMAIN jobs'[j] = DOMAIN jobs[j]
          /\ jobs'[j].result # jobs[j].result =>
                (jobs[j].status = "processing" /\ jobs'[j].status = "completed")
          /\ jobs'[j].error # jobs[j].error =>
                (jobs[j].status = "processing" /\ jobs'[j].status = "failed")
    /\ \A j \in DOMAIN jobs' \ DOMAIN jobs :
          /\ j = nextId + 1
          /\ Accepts
          /\ jobs'[j].createdAt = now
    /\ \A j \in Evicted : j \notin DOMAIN jobs'

AdmittedNow == {j \in Ids : Admits(j)}

(***************************************************************************)
(* C27: between the handlers, once a submit or a completion has run its    *)
(* processQueue() call, a slot is never free while an entry waits:         *)
(* activeJobs < MAX_CONCURRENT_JOBS implies an empty queue.  Each step     *)
(* admits at most one entry, the head of the queue, and that is enough:    *)
(* a submit adds one entry and a completion frees one slot.                *)
(***************************************************************************)
C27_NoFreeSlotWhileQueued ==
    /\ [](activeJobs < MAX_CONCURRENT_JOBS => Len(queue) = 0)
    /\ [][/\ Cardinality(AdmittedNow) <= 1
           /\ Len(queue') >= Len(queue) - 1
           /\ activeJobs' >= activeJobs - 1
           /\ activeJobs' <= activeJobs + 1]_vars

\* a completion has admitted one of two waiting entries; the other waits
\* behind two busy slots
C27_OneAdmittedOneWaiting ==
    /\ \E j \in Ids : race[j] = "settled"
    /\ activeJobs = MAX_CONCURRENT_JOBS
    /\ Len(queue) = 1
    /\ nextId = MaxJobs

\* the callers whose resolver has been called and that have not resumed
Woken == {j \in Ids : sem[j] = "woken"}

\* a caller enters withSemaphore and goes straight to fn() in this step
EntersFreely(j) == sem[j] = "scheduled" /\ sem'[j] = "running"

(***************************************************************************)
(* C28: in version 2.3 the counter `active` equals the number of fn()      *)
(* executions in progress and neither exceeds MAX_CONCURRENT.  Between the *)
(* step in which a finishing execution calls the resolver of a waiter and  *)
(* the step in which that waiter resumes, `active` is one short of the     *)
(* executions promised; no new caller enters withSemaphore in between:     *)
(* the next step is the resumption of the woken caller, which takes the    *)
(* counter back to where it was.                                           *)
(***************************************************************************)
C28_SemaphoreCeiling ==
    /\ [](/\ activeJobs = Cardinality(InSlot)
          /\ activeJobs <= MAX_CONCURRENT
          /\ activeJobs >= 0
          /\ Woken # {} => activeJobs < MAX_CONCURRENT)
    /\ [][Woken # {} =>
             /\ \A j \in Ids : ~EntersFreely(j)
             /\ \E j \in Woken : sem'[j] = "running"
             /\ activeJobs' = activeJobs + 1]_vars

\* a waiter has been woken and has not resumed, a slot looks free, and the
\* callback of a new job is ready to call withSemaphore
C28_NewCallerBesideWokenWaiter ==
    /\ Woken # {}
    /\ activeJobs = MAX_CONCURRENT - 1
    /\ \E j \in Ids : sem[j] = "scheduled"

\* the callers blocked in withSemaphore: their resolver is in the queue
Blocked == {j \in Ids : sem[j] = "waiting"}

(***************************************************************************)
(* C29: in version 2.3 no wake-up is lost.  The queue holds exactly the    *)
(* resolvers of the blocked callers, in the order in which they blocked;   *)
(* while a caller is blocked and no woken caller is about to resume, all   *)
(* MAX_CONCURRENT slots are taken, so a later completion will call a       *)
(* resolver; the end of an execution wakes the head of the queue.  Given   *)
(* that every started launch settles and every fn() in progress returns    *)
(* or throws, every blocked caller is woken and every woken caller runs    *)
(* its fn().                                                               *)
(***************************************************************************)
C29_NoLostWakeUp ==
    /\ [](/\ Blocked = {queue[i].jobId : i \in 1..Len(queue)}
          /\ Cardinality(Blocked) = Len(queue)
          /\ (Blocked # {} /\ Woken = {}) => activeJobs = MAX_CONCURRENT
          /\ Cardinality(Woken) <= 1)
    /\ [][\A j \in Ids :
            /\ (Ends(j) /\ Len(queue) > 0) => Woken' = {Head(queue).jobId}
            /\ j \in Blocked => sem'[j] \in {"waiting", "woken"}
            /\ j \in Woken => sem'[j] \in {"woken", "running"}]_vars
    /\ []<>(Blocked = {} /\ Woken = {})

\* a waiter has been woken while another caller is still blocked behind it
C29_WokenAheadOfBlocked ==
    /\ Cardinality(Woken) = 1
    /\ Blocked # {}
    /\ activeJobs = MAX_CONCURRENT - 1

\* the processQueue runs that pass their await in this step
SettledNow == {j \in Ids : Settles(j)}

\* the consultaRama call of j ends in this step, after the processQueue run
\* that made it had already gone on (version 4.1: the timeout won the race)
EndsLate(j) == race[j] = "settled" /\ call[j] # "settled" /\ call'[j] = "settled"

(***************************************************************************)
(* C30: activeJobs is never negative and is the number of jobs admitted    *)
(* whose processQueue run has not yet reached its `finally`.  Every step   *)
(* changes it by the admissions made minus the runs that ended; a job is   *)
(* admitted at most once and its run ends at most once.  In version 4.1    *)
(* the run of a job that times out ends with the timeout; when the         *)
(* consultaRama call behind it ends later, that step changes neither       *)
(* activeJobs nor the queue nor any record.                                *)
(***************************************************************************)
C30_ActiveJobsCountsRuns ==
    /\ [](/\ activeJobs >= 0
          /\ activeJobs = Cardinality(Running))
    /\ [][/\ activeJobs' - activeJobs =
               Cardinality(AdmittedNow) - Cardinality(SettledNow)
           /\ \A j \in Ids :
                /\ race[j] # "none" => ~Admits(j)
                /\ race[j] = "settled" => race'[j] = "settled"
                /\ EndsLate(j) =>
                      UNCHANGED <<activeJobs, queue, jobs, race>>]_vars

\* the call of a timed-out job has ended after the timeout while both slots
\* are taken by later jobs
C30_LateEndBesideFullSlots ==
    \E j \in Ids :
        /\ timer[j] = "fired"
        /\ race[j] = "settled"
        /\ call[j] = "settled"
        /\ activeJobs = MAX_CONCURRENT_JOBS
        /\ Cardinality(Running) = MAX_CONCURRENT_JOBS

\* the calls whose page is open although their processQueue run has ended
Orphaned == {j \in pages : race[j] = "settled"}

(***************************************************************************)
(* C31: in version 4.1 the number of pages open on the shared browser      *)
(* never exceeds MAX_CONCURRENT_JOBS, also after a job has timed out and   *)
(* its slot has gone to the next entry of the queue.                       *)
(***************************************************************************)
C31_PagesWithinCeiling ==
    variant = "v4.1" => Cardinality(pages) <= MAX_CONCURRENT_JOBS

(***************************************************************************)
(* What the versions do: a page is open exactly while its consultaRama     *)
(* call is between newPage() and its `finally`; the pages of the jobs that *)
(* hold a slot never exceed MAX_CONCURRENT_JOBS; in server.js no other     *)
(* page exists, and in version 4.1 the others belong to jobs that timed    *)
(* out, whose calls nobody cancels.                                        *)
(***************************************************************************)
C31_PagesOfRunningJobsWithinCeiling ==
    /\ pages = {j \in Ids : call[j] = "page"}
    /\ Cardinality(pages \cap Running) <= MAX_CONCURRENT_JOBS
    /\ pages \ Running = Orphaned
    /\ \A j \in Orphaned : variant = "v4.1" /\ timer[j] = "fired"
    /\ variant = "v3.2" => Cardinality(pages) <= MAX_CONCURRENT_JOBS

\* the page of a timed-out job is open beside the pages of two running jobs
C31_OrphanedPageBesideFullSlots ==
    /\ Cardinality(Orphaned) = 1
    /\ Cardinality(pages \cap Running) = MAX_CONCURRENT_JOBS

\* the job ids of the queue entries, in queue order
QueueIds == [i \in 1..Len(queue) |-> queue[i].jobId]

\* a poll has just been answered with status queued
PolledQueued == resp.kind = "resultado" /\ resp.payload.status = "queued"

(***************************************************************************)
(* C32: a job of the store has status queued exactly when the queue holds  *)
(* an entry with its jobId, and it holds at most one.  The entries stand   *)
(* in the order of their creation, so a poll of a queued job reports a     *)
(* queue_position of at least 1: the 1-based index of its entry, which is  *)
(* one more than the number of entries submitted before it and still       *)
(* waiting.                                                                *)
(***************************************************************************)
C32_QueuedIffInQueue ==
    /\ \A j \in DOMAIN jobs : jobs[j].status = "queued" <=> InQueue(j)
    /\ \A i, k \in 1..Len(queue) : i < k => QueueIds[i] < QueueIds[k]
    /\ PolledQueued =>
          /\ resp.payload.code = 200
          /\ resp.payload.queue_position >= 1
          /\ resp.payload.queue_position <= Len(queue)
          /\ QueueIds[resp.payload.queue_position] = resp.jobId
          /\ resp.payload.queue_position =
                1 + Cardinality({i \in 1..Len(queue) : QueueIds[i] < resp.jobId})

\* a poll of the second of two waiting jobs
C32_PolledSecondInQueue ==
    /\ PolledQueued
    /\ resp.payload.queue_position = 2
    /\ Len(queue) = 2

\* the updates that processQueue passes to updateJob
Updates ==
    {[status |-> "processing"]}
        \cup {Completed(result) : result \in Results}
        \cup {Failed(message) : message \in ScrapeErrors \cup
                                   {NewPageError, LaunchError, TimeoutError}}

(***************************************************************************)
(* C33: updateJob with an identifier that is not in the store returns the  *)
(* store as it is.  A record appears in the store only when its job is     *)
(* created: once evicted, a job stays absent, and the step that admits it  *)
(* or ends its execution writes no record for it, whole or partial.        *)
(***************************************************************************)
C33_UpdateOfAbsentIsNoOp ==
    /\ [](\A j \in Ids \ DOMAIN jobs :
             \A u \in Updates : updateJob(jobs, j, u) = jobs)
    /\ [][/\ DOMAIN jobs' \ DOMAIN jobs \subseteq {nextId + 1}
           /\ \A j \in Evicted :
                /\ j \notin DOMAIN jobs'
                /\ (Admits(j) \/ Settles(j)) =>
                      \A k \in DOMAIN jobs' \ (AdmittedNow \cup SettledNow) :
                          k \in DOMAIN jobs /\ jobs'[k] = jobs[k]]_vars

\* a job evicted while it waited has been admitted and its execution has
\* ended
C33_EvictedJobRanToTheEnd ==
    \E j \in Evicted : race[j] = "settled" /\ call[j] = "settled"

\* the evicted jobs whose entry is still in the queue
EvictedQueued == {j \in Evicted : InQueue(j)}

(***************************************************************************)
(* C34: the sweep that deletes the record of a queued job leaves its queue *)
(* entry where it is.  The entry is admitted when it is the head of the    *)
(* queue, like any other: the job then holds a slot and its consultaRama   *)
(* call is started.  The step in which its execution ends writes no record *)
(* for it and touches no record but that of the entry it admits.  Provided *)
(* executions end, every such job is admitted and its execution ends: time *)
(* and again no evicted job is left waiting or running.                    *)
(***************************************************************************)
C34_EvictedQueuedJobStillRuns ==
    /\ [][\A j \in Ids :
            /\ (InQueue(j) /\ j \in DOMAIN jobs /\ j \notin DOMAIN jobs') =>
                  /\ Sweeps
                  /\ queue' = queue
                  /\ race'[j] = "none"
            /\ (j \in Evicted /\ Admits(j)) =>
                  /\ Head(queue).jobId = j
                  /\ queue' = Tail(queue)
                  /\ j \in Running'
                  /\ activeJobs' = Cardinality(Running')
                  /\ call'[j] = "awaitBrowser"
                  /\ j \notin DOMAIN jobs'
            /\ (j \in Evicted /\ Settles(j)) =>
                  /\ j \notin DOMAIN jobs'
                  /\ DOMAIN jobs' = DOMAIN jobs
                  /\ \A k \in DOMAIN jobs : Admits(k) \/ jobs'[k] = jobs[k]]_vars
    /\ []<>(\A j \in Evicted : race[j] = "settled")

\* two jobs whose records were swept wait in the queue behind full slots
C34_TwoEvictedJobsWaiting ==
    /\ Cardinality(EvictedQueued) = 2
    /\ Len(queue) = 2
    /\ activeJobs = MAX_CONCURRENT_JOBS

\* the steps a consultaRama call goes through, in order
CallEdges ==
    {<<"none", "awaitBrowser">>, <<"awaitBrowser", "page">>,
     <<"awaitBrowser", "settled">>, <<"page", "settled">>}

\* the steps a processQueue run goes through, in order
RaceEdges == {<<"none", "pending">>, <<"pending", "settled">>}

(***************************************************************************)
(* C35: a job is handed to consultaRama at most once.  The queue holds at  *)
(* most one entry per job and none for a job that has been admitted; the   *)
(* step that admits a job removes its entry, and no later step, whether    *)
(* the job failed, timed out or lost its record, puts an entry back,       *)
(* starts a second processQueue run for it or calls consultaRama for it    *)
(* again.                                                                  *)
(***************************************************************************)
C35_ExecutedAtMostOnce ==
    /\ [](/\ \A i, k \in 1..Len(queue) :
                i # k => queue[i].jobId # queue[k].jobId
          /\ \A j \in Ids :
                /\ InQueue(j) <=> (j \in Created /\ race[j] = "none")
                /\ race[j] = "none" <=> call[j] = "none")
    /\ [][\A j \in Ids :
            /\ Admits(j) => (InQueue(j)' = FALSE /\ call'[j] = "awaitBrowser")
            /\ race[j] # "none" => ~InQueue(j)'
            /\ race'[j] # race[j] => <<race[j], race'[j]>> \in RaceEdges
            /\ call'[j] # call[j] => <<call[j], call'[j]>> \in CallEdges
            /\ joined[j] # 0 => joined'[j] = joined[j]]_vars

\* all jobs have run: one failed in the scrape, one timed out, one lost its
\* record, and nothing is queued or running
C35_AllRanOnceAfterFailures ==
    /\ nextId = MaxJobs
    /\ Len(queue) = 0
    /\ \A j \in Ids : race[j] = "settled" /\ call[j] = "settled"
    /\ \E j \in Ids : timer[j] = "fired"
    /\ \E j \in DOMAIN jobs :
          jobs[j].status = "failed" /\ jobs[j].error \in ScrapeErrors
    /\ Evicted # {}

\* GET /buscar has just answered a valid request
SubmitAnswered == resp.kind = "buscar" /\ resp.code = 200

(***************************************************************************)
(* C36: the status and the queue_position that GET /buscar returns are the *)
(* status of the job in the store and the 1-based index of its entry in    *)
(* the queue at the moment the response is sent.                           *)
(***************************************************************************)
C36_SubmitAnswerIsCurrent ==
    SubmitAnswered =>
        /\ resp.jobId \in DOMAIN jobs
        /\ resp.status = jobs[resp.jobId].status
        /\ resp.queue_position = QueuePosition(queue, resp.jobId)

(***************************************************************************)
(* What the handler does: processQueue() has run when the response is      *)
(* written, the status sent is the constant "queued" and queue_position is *)
(* queue.length.  When the slots were full the job is queued and is the    *)
(* last entry, so both fields are right; when a slot was free the job is   *)
(* already processing and has no entry, and the response still says        *)
(* "queued", with the number of entries left in the queue, which is 0.     *)
(***************************************************************************)
C36_SubmitAnswerIsQueuedAndLength ==
    SubmitAnswered =>
        /\ resp.jobId \in DOMAIN jobs
        /\ resp.status = "queued"
        /\ resp.queue_position = Len(queue)
        /\ resp.queue_position = QueuePosition(queue, resp.jobId)
        /\ jobs[resp.jobId].status =
              IF resp.queue_position = 0 THEN "processing" ELSE "queued"
        /\ resp.queue_position = 0 <=> race[resp.jobId] = "pending"

\* a submit that found a free slot was answered "queued" at position 0
C36_AnsweredQueuedWhileProcessing ==
    /\ SubmitAnswered
    /\ resp.status = "queued"
    /\ resp.queue_position = 0
    /\ jobs[resp.jobId].status = "processing"
    /\ call[resp.jobId] = "awaitBrowser"

\* the records and the cache entries that are in the map before and after
\* the step are the same
RecordsKept ==
    /\ DOMAIN jobs' \subseteq DOMAIN jobs
    /\ \A j \in DOMAIN jobs' : jobs'[j] = jobs[j]
    /\ DOMAIN cache' \subseteq DOMAIN cache
    /\ \A k \in DOMAIN cache' : cache'[k] = cache[k]

(***************************************************************************)
(* C37: a run of the sweep (the interval callback of server.js and of      *)
(* version 4.1, cleanupMaps of version 2.3) deletes records from the job   *)
(* store and, in version 2.3 only, entries from the cache, and does        *)
(* nothing else: the queue, activeJobs, the waiters of the semaphore, the  *)
(* browser promise, the calls in progress and their pages stay as they     *)
(* are, and a record or entry that is not deleted is not altered.          *)
(***************************************************************************)
C37_SweepTouchesOnlyStores ==
    [][Sweeps =>
          /\ UNCHANGED <<variant, queue, activeJobs, sem, browserPromise,
                         launched, joined, race, call, timer, deadline,
                         pages, nextId, soloDigitos>>
          /\ RecordsKept
          /\ variant # "v2.3" => cache' = cache]_vars

\* cleanupMaps is due in version 2.3 with a stale cache entry to delete,
\* while both slots are taken and a page is open
C37_CleanupDueBesideRunning ==
    /\ variant = "v2.3"
    /\ now >= nextSweepAt
    /\ activeJobs = MAX_CONCURRENT
    /\ pages # {}
    /\ StaleEntries(cache, now) # {}

\* a step that answers GET /health
ReadsHealth == resp'.kind = "health"

(***************************************************************************)
(* C38: GET /resultado/:jobId and GET /health only read.  Whatever the     *)
(* state of the job polled (never issued, evicted, queued, processing,     *)
(* completed or failed), the step that answers changes neither the job     *)
(* store, the queue, activeJobs, the cache, the browser promise nor        *)
(* anything else of the server.  The answer of /health carries the current *)
(* activeJobs, the current length of the queue and the current number of   *)
(* records in the store.                                                   *)
(***************************************************************************)
C38_ReadsChangeNothing ==
    /\ [][(Polls \/ ReadsHealth) =>
             UNCHANGED <<variant, jobs, queue, activeJobs, nextId, race, call,
                         timer, deadline, browserPromise, now, nextSweepAt,
                         launched, joined, cache, sem, soloDigitos,
                         pages>>]_vars
    /\ [](resp.kind = "health" =>
             /\ resp.active_jobs = activeJobs
             /\ resp.queued_jobs = Len(queue)
             /\ resp.total_jobs = Cardinality(DOMAIN jobs))

\* /health has answered while both slots are taken, an entry waits and the
\* sweep has left fewer records than jobs were created
C38_HealthAfterEviction ==
    /\ resp.kind = "health"
    /\ resp.active_jobs = MAX_CONCURRENT_JOBS
    /\ resp.queued_jobs >= 1
    /\ resp.total_jobs >= 1
    /\ resp.total_jobs < nextId

====
